---------------------------- MODULE Spec2Model ----------------------------
(***************************************************************************)
(* LISON: decoding of a JSON value tree into the Image document model      *)
(* (liblison parse) and the rendering walk that maps the model to cairo    *)
(* calls (liblison render).                                                *)
(*                                                                         *)
(* Numbers (C++ double) are modelled as exact rationals <<n, d>>, d > 0,   *)
(* in lowest terms; floating-point rounding is not modelled.               *)
(* picojson values are modelled as one-field records:                      *)
(*   [num |-> r]  [str |-> s]  [arr |-> seq]  [obj |-> function]  [null]   *)
(* A thrown ParseFailure is the result [ok |-> FALSE, err |-> kind].       *)
(***************************************************************************)
EXTENDS Integers, Sequences, FiniteSets, TLC

VARIABLES pc, input, desc, ub, result, ppi, mag, cr, stack, blocks

vars == <<pc, input, desc, ub, result, ppi, mag, cr, stack, blocks>>

(***************************************************************************)
(* Bounds of the model.                                                    *)
(***************************************************************************)
\* width in bits of the modelled std::size_t
SizeBits == 2
\* deepest nesting of Groups around a leaf shape in the generated documents
MaxDepth == 2
\* longest array tried as a Color
MaxColorLen == 5
\* most segments in a generated CurveData
MaxSegs == 2
\* most curves in a generated RegionData
MaxCurves == 3
\* most pens (and brushes) in a generated document
MaxPens == 2
\* longest array tried as a Segment
MaxSegmentLen == 5
\* longest array tried as a CurveData
MaxCurveDataLen == 4

RECURSIVE Pow2(_)
Pow2(k) == IF k = 0 THEN 1 ELSE 2 * Pow2(k - 1)

\* number of values of the modelled std::size_t
SizeLimit == Pow2(SizeBits)

(***************************************************************************)
(* double arithmetic, as exact rationals                                   *)
(***************************************************************************)
Abs(x) == IF x < 0 THEN -x ELSE x

RECURSIVE Gcd(_, _)
Gcd(a, b) == IF b = 0 THEN a ELSE Gcd(b, a % b)

RNorm(n, d) ==
    LET s == IF d < 0 THEN -1 ELSE 1
        g == Gcd(Abs(n), Abs(d))
    IN  <<(s * n) \div g, (s * d) \div g>>

R(n) == <<n, 1>>
Q(n, d) == RNorm(n, d)
RAdd(a, b) == RNorm(a[1] * b[2] + b[1] * a[2], a[2] * b[2])
RSub(a, b) == RNorm(a[1] * b[2] - b[1] * a[2], a[2] * b[2])
RMul(a, b) == RNorm(a[1] * b[1], a[2] * b[2])
RDiv(a, b) == RNorm(a[1] * b[2], a[2] * b[1])
RLe(a, b) == a[1] * b[2] <= b[1] * a[2]
RLt(a, b) == a[1] * b[2] < b[1] * a[2]
RIsInt(a) == a[2] = 1

(***************************************************************************)
(* picojson::value                                                         *)
(***************************************************************************)
JNum(r) == [num |-> r]
JStr(s) == [str |-> s]
JArr(a) == [arr |-> a]
JObj(o) == [obj |-> o]
JNull == [null |-> TRUE]

IsNum(v) == "num" \in DOMAIN v
IsStr(v) == "str" \in DOMAIN v
IsArr(v) == "arr" \in DOMAIN v
IsObj(v) == "obj" \in DOMAIN v

\* a text picojson::parse reports an error for
BadText == [text |-> "malformed"]

(***************************************************************************)
(* ParseFailure and the outcome of a decoding call                         *)
(***************************************************************************)
ParseFailure == {"bad_json", "bad_image", "bad_pen", "bad_brush", "bad_shape"}

Ok(v) == [ok |-> TRUE, val |-> v]
Fail(ctx) == [ok |-> FALSE, err |-> ctx]

\* std::optional
None == <<>>
Some(x) == <<x>>
HasValue(o) == Len(o) = 1
Value(o) == o[1]

\* index of the last element of rs that would throw
FirstFail_last(rs) ==
    IF \E i \in 1..Len(rs) : ~rs[i].ok
    THEN CHOOSE i \in 1..Len(rs) : ~rs[i].ok /\ \A j \in (i + 1)..Len(rs) : rs[j].ok
    ELSE 0

\* index of the first element of rs that threw, 0 if none did
FirstFail(rs) ==
    IF \E i \in 1..Len(rs) : ~rs[i].ok
    THEN CHOOSE i \in 1..Len(rs) : ~rs[i].ok /\ \A j \in 1..(i - 1) : rs[j].ok
    ELSE 0

(***************************************************************************)
(* Generic building blocks.  A closure argument of the source is given     *)
(* here as the results of applying it: items[i] is parse(arr[i]),          *)
(* filled[m] is what the filler of member m does with obj[m].  A result is *)
(* looked at only where the source calls the closure, and in its order.    *)
(***************************************************************************)
\* the member the filler named m is called with, the element a tuple filler
\* is called with
Member(val, m) == IF IsObj(val) /\ m \in DOMAIN val.obj THEN val.obj[m] ELSE JNull
Elem(val, i) == IF IsArr(val) /\ i <= Len(val.arr) THEN val.arr[i] ELSE JNull
Size(val) == IF IsArr(val) THEN Len(val.arr) ELSE 0

parse_array(val, items, ctx) ==
    IF ~IsArr(val) THEN Fail(ctx)
    ELSE LET f == FirstFail(items)
         IN  IF f # 0 THEN items[f]
             ELSE Ok([i \in 1..Len(val.arr) |-> items[i].val])

\* members[i] is the name of the i-th filler and fields[i] the field of T it
\* assigns; t0 is the default-constructed T.
parse_object(val, required_members, allowed_members, ctx, t0, members, fields, filled) ==
    IF ~IsObj(val) THEN Fail(ctx)
    ELSE LET obj == val.obj
         IN  IF ~(\A m \in required_members : m \in DOMAIN obj)
                \/ ~(\A m \in DOMAIN obj : m \in allowed_members)
             THEN Fail(ctx)
             ELSE LET rs == [i \in 1..Len(members) |->
                               IF members[i] \in DOMAIN obj
                               THEN filled[members[i]]
                               ELSE Ok(t0[fields[i]])]
                      f == FirstFail(rs)
                  IN  IF f # 0 THEN rs[f]
                      ELSE Ok([fld \in DOMAIN t0 |->
                                 IF \E i \in 1..Len(fields) : fields[i] = fld
                                 THEN rs[CHOOSE i \in 1..Len(fields) : fields[i] = fld].val
                                 ELSE t0[fld]])

\* res is parse(val, ctx) and holds is pred(res)
parse_sub(res, holds, ctx) ==
    IF ~res.ok THEN res
    ELSE IF holds THEN res ELSE Fail(ctx)

\* filled[i] is what filler i does with arr[i - 1]; fields[i] is the field it
\* assigns, "" for a filler that assigns nothing.
\* accepts an array with more elements than fillers
parse_tuple_at_least(val, ctx, t0, fields, filled) ==
    IF ~IsArr(val) THEN Fail(ctx)
    ELSE IF Len(val.arr) < Len(fields) THEN Fail(ctx)
    ELSE LET f == FirstFail(filled)
         IN  IF f # 0 THEN filled[f]
             ELSE Ok([fld \in DOMAIN t0 |->
                        IF \E i \in 1..Len(fields) : fields[i] = fld
                        THEN filled[CHOOSE i \in 1..Len(fields) : fields[i] = fld].val
                        ELSE t0[fld]])

parse_tuple(val, ctx, t0, fields, filled) ==
    IF ~IsArr(val) THEN Fail(ctx)
    ELSE IF Len(val.arr) # Len(fields) THEN Fail(ctx)
    ELSE LET f == FirstFail(filled)
         IN  IF f # 0 THEN filled[f]
             ELSE Ok([fld \in DOMAIN t0 |->
                        IF \E i \in 1..Len(fields) : fields[i] = fld
                        THEN filled[CHOOSE i \in 1..Len(fields) : fields[i] = fld].val
                        ELSE t0[fld]])

(***************************************************************************)
(* Numbers                                                                 *)
(***************************************************************************)
parse_number(val, ctx) ==
    IF ~IsNum(val) THEN Fail(ctx) ELSE Ok(val.num)

\* accepts 0
is_positive_or_zero(num) == RLe(R(0), num)

is_positive(num) == RLt(R(0), num)

parse_positive_number(val, ctx) ==
    LET res == parse_number(val, ctx)
    IN  parse_sub(res, is_positive(res.val), ctx)

is_non_negative(num) == RLe(R(0), num)

parse_non_negative_number(val, ctx) ==
    LET res == parse_number(val, ctx)
    IN  parse_sub(res, is_non_negative(res.val), ctx)

\* no upper limit
is_channel_unbounded(num) == RLe(R(0), num)

is_channel(num) == RLe(R(0), num) /\ RLe(num, R(1))

parse_channel(val, ctx) ==
    LET res == parse_number(val, ctx)
    IN  parse_sub(res, is_channel(res.val), ctx)

is_index(num) == RLe(R(0), num) /\ RIsInt(num)

\* The double returned by parse_sub is converted to std::size_t by the
\* return statement.  A value the type cannot represent makes the conversion
\* undefined; ub is the value this build produces for it.
ToSizeT(num) ==
    IF RIsInt(num) /\ 0 <= num[1] /\ num[1] < SizeLimit THEN num[1] ELSE ub

parse_index(val, ctx) ==
    LET num == parse_number(val, ctx)
        res == parse_sub(num, is_index(num.val), ctx)
    IN  IF res.ok THEN Ok(ToSizeT(res.val)) ELSE res

(***************************************************************************)
(* Point, Color                                                            *)
(***************************************************************************)
Point0 == [x |-> R(0), y |-> R(0)]

parse_point(val, ctx) ==
    parse_tuple(val, ctx, Point0, <<"x", "y">>,
                [i \in 1..2 |-> parse_number(Elem(val, i), ctx)])

parse_color(val, ctx) ==
    IF ~IsArr(val) THEN Fail(ctx)
    ELSE LET arr == val.arr
         IN  IF Len(arr) = 3
             THEN LET rs == [i \in 1..3 |-> parse_channel(arr[i], ctx)]
                      f == FirstFail(rs)
                  IN  IF f # 0 THEN rs[f]
                      ELSE Ok([red |-> rs[1].val, green |-> rs[2].val,
                               blue |-> rs[3].val, alpha |-> R(1)])
             ELSE IF Len(arr) = 4
             THEN LET rs == [i \in 1..4 |-> parse_channel(arr[i], ctx)]
                      f == FirstFail(rs)
                  IN  IF f # 0 THEN rs[f]
                      ELSE Ok([red |-> rs[1].val, green |-> rs[2].val,
                               blue |-> rs[3].val, alpha |-> rs[4].val])
             ELSE Fail(ctx)

Color0 == [red |-> R(0), green |-> R(0), blue |-> R(0), alpha |-> R(0)]

(***************************************************************************)
(* Pattern.  The field kind is the active alternative of the std::variant. *)
(***************************************************************************)
monochrome_required_members == {"type", "color"}
monochrome_allowed_members == {"type", "color"}

Monochrome0 == [kind |-> "Monochrome", color |-> Color0]

parse_monochrome(val, ctx) ==
    parse_object(val, monochrome_required_members, monochrome_allowed_members, ctx,
                 Monochrome0, <<"color">>, <<"color">>,
                 [m \in {"color"} |-> parse_color(Member(val, m), ctx)])

linear_gradient_required_members == {"type", "point-1", "color-1", "point-2", "color-2"}
linear_gradient_allowed_members == {"type", "point-1", "color-1", "point-2", "color-2"}

LinearGradient0 ==
    [kind |-> "LinearGradient", point1 |-> Point0, color1 |-> Color0,
     point2 |-> Point0, color2 |-> Color0]

parse_linear_gradient(val, ctx) ==
    parse_object(val, linear_gradient_required_members, linear_gradient_allowed_members, ctx,
                 LinearGradient0,
                 <<"point-1", "color-1", "point-2", "color-2">>,
                 <<"point1", "color1", "point2", "color2">>,
                 [m \in {"point-1", "color-1", "point-2", "color-2"} |->
                    IF m \in {"point-1", "point-2"}
                    THEN parse_point(Member(val, m), ctx)
                    ELSE parse_color(Member(val, m), ctx)])

radial_gradient_required_members ==
    {"type", "center-1", "radius-1", "color-1", "center-2", "radius-2", "color-2"}
radial_gradient_allowed_members ==
    {"type", "center-1", "radius-1", "color-1", "center-2", "radius-2", "color-2"}

RadialGradient0 ==
    [kind |-> "RadialGradient", center1 |-> Point0, radius1 |-> R(0), color1 |-> Color0,
     center2 |-> Point0, radius2 |-> R(0), color2 |-> Color0]

parse_radial_gradient(val, ctx) ==
    parse_object(val, radial_gradient_required_members, radial_gradient_allowed_members, ctx,
                 RadialGradient0,
                 <<"center-1", "radius-1", "color-1", "center-2", "radius-2", "color-2">>,
                 <<"center1", "radius1", "color1", "center2", "radius2", "color2">>,
                 [m \in {"center-1", "radius-1", "color-1", "center-2", "radius-2", "color-2"} |->
                    IF m \in {"center-1", "center-2"}
                    THEN parse_point(Member(val, m), ctx)
                    ELSE IF m \in {"radius-1", "radius-2"}
                    THEN parse_non_negative_number(Member(val, m), ctx)
                    ELSE parse_color(Member(val, m), ctx)])

parse_pattern(val, ctx) ==
    IF ~IsObj(val) THEN Fail(ctx)
    ELSE IF "type" \notin DOMAIN val.obj \/ ~IsStr(val.obj["type"]) THEN Fail(ctx)
    ELSE LET type == val.obj["type"].str
         IN  IF type = "monochrome" THEN parse_monochrome(val, ctx)
             ELSE IF type = "linear-gradient" THEN parse_linear_gradient(val, ctx)
             ELSE IF type = "radial-gradient" THEN parse_radial_gradient(val, ctx)
             ELSE Fail(ctx)

(***************************************************************************)
(* Pen, Brush                                                              *)
(***************************************************************************)
parse_line_cap(val) ==
    IF ~IsStr(val) THEN Fail("bad_pen")
    ELSE IF val.str \in {"butt", "round", "square"} THEN Ok(val.str)
    ELSE Fail("bad_pen")

parse_line_join(val) ==
    IF ~IsStr(val) THEN Fail("bad_pen")
    ELSE IF val.str \in {"miter", "round", "bevel"} THEN Ok(val.str)
    ELSE Fail("bad_pen")

pen_required_members == {"pattern", "width", "cap", "join"}
pen_allowed_members == {"pattern", "width", "cap", "join"}

Pen0 == [pattern |-> Monochrome0, width |-> R(0), cap |-> "butt", join |-> "miter"]

parse_pen(val) ==
    parse_object(val, pen_required_members, pen_allowed_members, "bad_pen",
                 Pen0, <<"pattern", "width", "cap", "join">>,
                 <<"pattern", "width", "cap", "join">>,
                 [m \in {"pattern", "width", "cap", "join"} |->
                    IF m = "pattern" THEN parse_pattern(Member(val, m), "bad_pen")
                    ELSE IF m = "width" THEN parse_positive_number(Member(val, m), "bad_pen")
                    ELSE IF m = "cap" THEN parse_line_cap(Member(val, m))
                    ELSE parse_line_join(Member(val, m))])

brush_required_members == {"pattern"}
brush_allowed_members == {"pattern"}

Brush0 == [pattern |-> Monochrome0]

\* reports the pattern's failures as bad_shape
parse_brush_shape_ctx(val) ==
    parse_object(val, brush_required_members, brush_allowed_members, "bad_brush",
                 Brush0, <<"pattern">>, <<"pattern">>,
                 [m \in {"pattern"} |-> parse_pattern(Member(val, m), "bad_shape")])

parse_brush(val) ==
    parse_object(val, brush_required_members, brush_allowed_members, "bad_brush",
                 Brush0, <<"pattern">>, <<"pattern">>,
                 [m \in {"pattern"} |-> parse_pattern(Member(val, m), "bad_brush")])

(***************************************************************************)
(* Segment, CurveData, RegionData                                          *)
(***************************************************************************)
\* the fillers of a segment tuple: the first assigns nothing, the others
\* decode a Point
SegmentFillers(val, n) ==
    [i \in 1..n |-> IF i = 1 THEN Ok(Elem(val, i))
                    ELSE parse_point(Elem(val, i), "bad_shape")]

LineSegment0 == [kind |-> "LineSegment", point2 |-> Point0]

parse_line_segment(val) ==
    parse_tuple(val, "bad_shape", LineSegment0, <<"", "point2">>,
                SegmentFillers(val, 2))

QuadraticBezierSegment0 ==
    [kind |-> "QuadraticBezierSegment", point2 |-> Point0, point3 |-> Point0]

parse_quadratic_bezier_segment(val) ==
    parse_tuple(val, "bad_shape", QuadraticBezierSegment0, <<"", "point2", "point3">>,
                SegmentFillers(val, 3))

CubicBezierSegment0 ==
    [kind |-> "CubicBezierSegment", point2 |-> Point0, point3 |-> Point0,
     point4 |-> Point0]

parse_cubic_bezier_segment(val) ==
    parse_tuple(val, "bad_shape", CubicBezierSegment0,
                <<"", "point2", "point3", "point4">>,
                SegmentFillers(val, 4))

parse_segment(val) ==
    IF ~IsArr(val) THEN Fail("bad_shape")
    ELSE IF Len(val.arr) = 0 \/ ~IsStr(val.arr[1]) THEN Fail("bad_shape")
    ELSE LET type == val.arr[1].str
         IN  IF type = "L" THEN parse_line_segment(val)
             ELSE IF type = "Q" THEN parse_quadratic_bezier_segment(val)
             ELSE IF type = "C" THEN parse_cubic_bezier_segment(val)
             ELSE Fail("bad_shape")

\* decodes the empty array as a curve at (0,0) with no segments
parse_curve_data_empty(val) ==
    IF ~IsArr(val) THEN Fail("bad_shape")
    ELSE IF Len(val.arr) = 0 THEN Ok([start |-> Point0, segments |-> <<>>])
    ELSE LET start == parse_point(val.arr[1], "bad_shape")
             rest == Tail(val.arr)
             segs == parse_array(JArr(rest),
                                 [i \in 1..Len(rest) |-> parse_segment(rest[i])],
                                 "bad_shape")
         IN  IF ~start.ok THEN start
             ELSE IF ~segs.ok THEN segs
             ELSE Ok([start |-> start.val, segments |-> segs.val])

parse_curve_data(val) ==
    IF ~IsArr(val) THEN Fail("bad_shape")
    ELSE IF Len(val.arr) = 0 THEN Fail("bad_shape")
    ELSE LET start == parse_point(val.arr[1], "bad_shape")
             rest == Tail(val.arr)
             segs == parse_array(JArr(rest),
                                 [i \in 1..Len(rest) |-> parse_segment(rest[i])],
                                 "bad_shape")
         IN  IF ~start.ok THEN start
             ELSE IF ~segs.ok THEN segs
             ELSE Ok([start |-> start.val, segments |-> segs.val])

parse_region_data(val) ==
    LET curves == parse_array(val,
                              [i \in 1..Size(val) |-> parse_curve_data(Elem(val, i))],
                              "bad_shape")
    IN  IF ~curves.ok THEN curves ELSE Ok([curves |-> curves.val])

(***************************************************************************)
(* Shape.  The field kind is the active alternative of the std::variant.   *)
(***************************************************************************)
CurveData0 == [start |-> Point0, segments |-> <<>>]
RegionData0 == [curves |-> <<>>]

group_required_members == {"type", "content"}
group_allowed_members == {"type", "content", "edit-annot"}

curve_required_members == {"type", "pen", "data"}

\* tolerates the annotation member of a Group
curve_allowed_members_annot == {"type", "pen", "data", "edit-annot"}

curve_allowed_members == {"type", "pen", "data"}

region_required_members == {"type", "data"}
region_allowed_members == {"type", "pen", "brush", "data"}

Group0 == [kind |-> "Group", content |-> <<>>]
Curve0 == [kind |-> "Curve", pen |-> 0, data |-> CurveData0]
Region0 == [kind |-> "Region", pen |-> None, brush |-> None, data |-> RegionData0]

\* the std::size_t assigned to a std::optional<std::size_t>
SomeIndex(res) == IF res.ok THEN Ok(Some(res.val)) ELSE res

parse_curve(val) ==
    parse_object(val, curve_required_members, curve_allowed_members, "bad_shape",
                 Curve0, <<"pen", "data">>, <<"pen", "data">>,
                 [m \in {"pen", "data"} |->
                    IF m = "pen" THEN parse_index(Member(val, m), "bad_shape")
                    ELSE parse_curve_data(Member(val, m))])

parse_region(val) ==
    parse_object(val, region_required_members, region_allowed_members, "bad_shape",
                 Region0, <<"pen", "brush", "data">>, <<"pen", "brush", "data">>,
                 [m \in {"pen", "brush", "data"} |->
                    IF m \in {"pen", "brush"}
                    THEN SomeIndex(parse_index(Member(val, m), "bad_shape"))
                    ELSE parse_region_data(Member(val, m))])

RECURSIVE parse_shape(_)

parse_group(val) ==
    parse_object(val, group_required_members, group_allowed_members, "bad_shape",
                 Group0, <<"content">>, <<"content">>,
                 [m \in {"content"} |->
                    parse_array(Member(val, m),
                                [i \in 1..Size(Member(val, m)) |->
                                   parse_shape(Elem(Member(val, m), i))],
                                "bad_shape")])

parse_shape(val) ==
    IF ~IsObj(val) THEN Fail("bad_shape")
    ELSE IF "type" \notin DOMAIN val.obj \/ ~IsStr(val.obj["type"]) THEN Fail("bad_shape")
    ELSE LET type == val.obj["type"].str
         IN  IF type = "group" THEN parse_group(val)
             ELSE IF type = "curve" THEN parse_curve(val)
             ELSE IF type = "region" THEN parse_region(val)
             ELSE Fail("bad_shape")

(***************************************************************************)
(* Image                                                                   *)
(***************************************************************************)
image_required_members == {"width", "height", "unit-per-inch", "pens", "brushes", "shapes"}
\* does not allow "editor"
image_allowed_members_no_editor ==
    {"width", "height", "unit-per-inch", "pens", "brushes", "shapes"}

image_allowed_members ==
    {"width", "height", "unit-per-inch", "editor", "pens", "brushes", "shapes"}

Image0 ==
    [width |-> R(0), height |-> R(0), unit_per_inch |-> R(0),
     pens |-> <<>>, brushes |-> <<>>, shapes |-> <<>>]

RECURSIVE ShapeIndexChecker(_, _)
ShapeIndexChecker(image, shape) ==
    IF shape.kind = "Group"
    THEN \A i \in 1..Len(shape.content) : ShapeIndexChecker(image, shape.content[i])
    ELSE IF shape.kind = "Curve"
    THEN shape.pen < Len(image.pens)
    ELSE (~HasValue(shape.pen) \/ Value(shape.pen) < Len(image.pens))
         /\ (~HasValue(shape.brush) \/ Value(shape.brush) < Len(image.brushes))

parse_image(val) ==
    LET im == parse_object(val, image_required_members, image_allowed_members, "bad_image",
                  Image0,
                  <<"width", "height", "unit-per-inch", "pens", "brushes", "shapes">>,
                  <<"width", "height", "unit_per_inch", "pens", "brushes", "shapes">>,
                  [m \in image_required_members |->
                     LET v == Member(val, m)
                     IN  IF m \in {"width", "height", "unit-per-inch"}
                         THEN parse_positive_number(v, "bad_image")
                         ELSE IF m = "pens"
                         THEN parse_array(v, [i \in 1..Size(v) |-> parse_pen(Elem(v, i))],
                                          "bad_image")
                         ELSE IF m = "brushes"
                         THEN parse_array(v, [i \in 1..Size(v) |-> parse_brush(Elem(v, i))],
                                          "bad_image")
                         ELSE parse_array(v, [i \in 1..Size(v) |-> parse_shape(Elem(v, i))],
                                          "bad_image")])
    IN  IF ~im.ok THEN im
        ELSE IF ~(\A i \in 1..Len(im.val.shapes) : ShapeIndexChecker(im.val, im.val.shapes[i]))
        THEN Fail("bad_shape")
        ELSE im

parse(text) ==
    IF "text" \in DOMAIN text THEN Fail("bad_json") ELSE parse_image(text)

(***************************************************************************)
(* The drawing surface (cairo_t).  calls records every call that changes   *)
(* or draws something, in order; path is the current path and point the    *)
(* current point, as the cairo API documents them.  seen records, for each  *)
(* call that paints or discards the current path, the path it acted on.    *)
(***************************************************************************)
Surface0 ==
    [calls |-> <<>>, path |-> <<>>, point |-> None, start |-> None, seen |-> <<>>]

Call(c, op, args) == [c EXCEPT !.calls = Append(@, [op |-> op, args |-> args])]

\* the surface after a call of op that acts on the whole current path
Seen(c, op) ==
    [Call(c, op, <<>>) EXCEPT
        !.seen = Append(@, [call |-> Len(c.calls) + 1, path |-> c.path])]

cairo_move_to(c, x, y) ==
    [Call(c, "cairo_move_to", <<x, y>>) EXCEPT
        !.path = Append(@, <<"M", x, y>>), !.point = Some(<<x, y>>),
        !.start = Some(<<x, y>>)]

cairo_line_to(c, x, y) ==
    [Call(c, "cairo_line_to", <<x, y>>) EXCEPT
        !.path = Append(@, <<"L", x, y>>), !.point = Some(<<x, y>>)]

cairo_curve_to(c, x1, y1, x2, y2, x3, y3) ==
    [Call(c, "cairo_curve_to", <<x1, y1, x2, y2, x3, y3>>) EXCEPT
        !.path = Append(@, <<"C", x1, y1, x2, y2, x3, y3>>),
        !.point = Some(<<x3, y3>>)]

cairo_close_path(c) ==
    [Call(c, "cairo_close_path", <<>>) EXCEPT
        !.path = Append(@, <<"Z">>), !.point = c.start]

cairo_new_sub_path(c) ==
    [Call(c, "cairo_new_sub_path", <<>>) EXCEPT !.point = None, !.start = None]

cairo_new_path(c) ==
    [Seen(c, "cairo_new_path") EXCEPT
        !.path = <<>>, !.point = None, !.start = None]

cairo_fill_preserve(c) == Seen(c, "cairo_fill_preserve")

cairo_stroke(c) ==
    [Seen(c, "cairo_stroke") EXCEPT
        !.path = <<>>, !.point = None, !.start = None]

\* (0, 0) when there is no current point
cairo_get_current_point(c) ==
    IF HasValue(c.point)
    THEN [x |-> Value(c.point)[1], y |-> Value(c.point)[2]]
    ELSE [x |-> R(0), y |-> R(0)]

(***************************************************************************)
(* detail::CoordTransformer                                                *)
(***************************************************************************)
\* leaves the magnification out
CoordTransformer_no_magnification(im, p, s) == RDiv(p, im.unit_per_inch)

CoordTransformer(im, p, s) == RMul(RDiv(p, im.unit_per_inch), s)

transform(scale, x) == RMul(x, scale)

transform_point(scale, p) == [x |-> transform(scale, p.x), y |-> transform(scale, p.y)]

(***************************************************************************)
(* detail::PatternSetter                                                   *)
(***************************************************************************)
ColorArgs(color) == <<color.red, color.green, color.blue, color.alpha>>

PatternSetter(c, scale, pattern) ==
    IF pattern.kind = "Monochrome"
    THEN Call(c, "cairo_set_source_rgba", ColorArgs(pattern.color))
    ELSE IF pattern.kind = "LinearGradient"
    THEN LET p1 == transform_point(scale, pattern.point1)
             p2 == transform_point(scale, pattern.point2)
             c1 == Call(c, "cairo_pattern_create_linear", <<p1.x, p1.y, p2.x, p2.y>>)
             c2 == Call(c1, "cairo_pattern_add_color_stop_rgba",
                        <<R(0)>> \o ColorArgs(pattern.color1))
             c3 == Call(c2, "cairo_pattern_add_color_stop_rgba",
                        <<R(1)>> \o ColorArgs(pattern.color2))
         IN  Call(c3, "cairo_set_source", <<>>)
    ELSE LET p1 == transform_point(scale, pattern.center1)
             p2 == transform_point(scale, pattern.center2)
             c1 == Call(c, "cairo_pattern_create_radial",
                        <<p1.x, p1.y, transform(scale, pattern.radius1),
                          p2.x, p2.y, transform(scale, pattern.radius2)>>)
             c2 == Call(c1, "cairo_pattern_add_color_stop_rgba",
                        <<R(0)>> \o ColorArgs(pattern.color1))
             c3 == Call(c2, "cairo_pattern_add_color_stop_rgba",
                        <<R(1)>> \o ColorArgs(pattern.color2))
         IN  Call(c3, "cairo_set_source", <<>>)

(***************************************************************************)
(* detail::SegmentPutter                                                   *)
(***************************************************************************)
\* qp1 + (qp2 - qp1) / 3.0
Elevate_third(qp1, qp2) == RAdd(qp1, RDiv(RSub(qp2, qp1), R(3)))

\* qp1 + 2 * (qp2 - qp1) / 3.0
Elevate(qp1, qp2) == RAdd(qp1, RDiv(RMul(R(2), RSub(qp2, qp1)), R(3)))

SegmentPutter(c, scale, seg) ==
    IF seg.kind = "LineSegment"
    THEN LET p2 == transform_point(scale, seg.point2)
         IN  cairo_line_to(c, p2.x, p2.y)
    ELSE IF seg.kind = "QuadraticBezierSegment"
    THEN LET qp1 == cairo_get_current_point(c)
             qp2 == transform_point(scale, seg.point2)
             qp3 == transform_point(scale, seg.point3)
             cp2 == [x |-> Elevate(qp1.x, qp2.x), y |-> Elevate(qp1.y, qp2.y)]
             cp3 == [x |-> Elevate(qp3.x, qp2.x), y |-> Elevate(qp3.y, qp2.y)]
             cp4 == qp3
         IN  cairo_curve_to(c, cp2.x, cp2.y, cp3.x, cp3.y, cp4.x, cp4.y)
    ELSE LET p2 == transform_point(scale, seg.point2)
             p3 == transform_point(scale, seg.point3)
             p4 == transform_point(scale, seg.point4)
         IN  cairo_curve_to(c, p2.x, p2.y, p3.x, p3.y, p4.x, p4.y)

(***************************************************************************)
(* detail::ShapeRenderer                                                   *)
(***************************************************************************)
set_pattern(c, scale, pattern) == PatternSetter(c, scale, pattern)

set_pen(c, scale, pen) ==
    LET c1 == set_pattern(c, scale, pen.pattern)
        c2 == Call(c1, "cairo_set_line_width", <<transform(scale, pen.width)>>)
        c3 == Call(c2, "cairo_set_line_cap",
                   <<IF pen.cap = "butt" THEN "CAIRO_LINE_CAP_BUTT"
                     ELSE IF pen.cap = "round" THEN "CAIRO_LINE_CAP_ROUND"
                     ELSE "CAIRO_LINE_CAP_SQUARE">>)
    IN  Call(c3, "cairo_set_line_join",
             <<IF pen.join = "miter" THEN "CAIRO_LINE_JOIN_MITER"
               ELSE IF pen.join = "round" THEN "CAIRO_LINE_JOIN_ROUND"
               ELSE "CAIRO_LINE_JOIN_BEVEL">>)

set_brush(c, scale, brush) == set_pattern(c, scale, brush.pattern)

RECURSIVE put_segments(_, _, _)
put_segments(c, scale, segments) ==
    IF segments = <<>> THEN c
    ELSE put_segments(SegmentPutter(c, scale, Head(segments)), scale, Tail(segments))

put_path(c, scale, data, closed) ==
    LET start == transform_point(scale, data.start)
        c1 == cairo_move_to(c, start.x, start.y)
        c2 == put_segments(c1, scale, data.segments)
    IN  IF closed THEN cairo_close_path(c2) ELSE c2

\* outcome of a shape visit: the surface, and whether std::out_of_range was
\* thrown by a vector::at
Done(c) == [cr |-> c, thrown |-> FALSE]
Thrown(c) == [cr |-> c, thrown |-> TRUE]

\* vector::at
InRange(v, i) == i < Len(v)
At(v, i) == v[i + 1]

ShapeRenderer_Curve(c, image, scale, curve) ==
    LET c1 == put_path(c, scale, curve.data, FALSE)
    IN  IF ~InRange(image.pens, curve.pen) THEN Thrown(c1)
        ELSE Done(cairo_stroke(set_pen(c1, scale, At(image.pens, curve.pen))))

RECURSIVE put_sub_paths(_, _, _, _)
put_sub_paths(c, scale, curves, i) ==
    IF ~(i < Len(curves)) THEN c
    ELSE put_sub_paths(put_path(cairo_new_sub_path(c), scale, curves[i + 1], TRUE),
                       scale, curves, i + 1)

\* fills with cairo_fill, which clears the path, before stroking
ShapeRenderer_Region_fill(c, image, scale, region) ==
    IF ~InRange(region.data.curves, 0) THEN Thrown(c)
    ELSE LET c1 == put_path(c, scale, At(region.data.curves, 0), TRUE)
             c2 == put_sub_paths(c1, scale, region.data.curves, 1)
             brushOk == ~HasValue(region.brush)
                        \/ InRange(image.brushes, Value(region.brush))
             c3 == IF HasValue(region.brush) /\ brushOk
                   THEN cairo_stroke(
                            set_brush(c2, scale, At(image.brushes, Value(region.brush))))
                   ELSE c2
             c4 == IF HasValue(region.brush) /\ brushOk
                   THEN [c3 EXCEPT !.calls[Len(c3.calls)].op = "cairo_fill"]
                   ELSE c3
         IN  IF ~brushOk THEN Thrown(c2)
             ELSE IF HasValue(region.pen)
             THEN IF ~InRange(image.pens, Value(region.pen)) THEN Thrown(c4)
                  ELSE Done(cairo_stroke(set_pen(c4, scale, At(image.pens, Value(region.pen)))))
             ELSE Done(cairo_new_path(c4))

\* discards the path only after a fill
ShapeRenderer_Region_keep(c, image, scale, region) ==
    IF ~InRange(region.data.curves, 0) THEN Thrown(c)
    ELSE LET c1 == put_path(c, scale, At(region.data.curves, 0), TRUE)
             c2 == put_sub_paths(c1, scale, region.data.curves, 1)
             brushOk == ~HasValue(region.brush)
                        \/ InRange(image.brushes, Value(region.brush))
             c3 == IF HasValue(region.brush) /\ brushOk
                   THEN cairo_fill_preserve(
                            set_brush(c2, scale, At(image.brushes, Value(region.brush))))
                   ELSE c2
         IN  IF ~brushOk THEN Thrown(c2)
             ELSE IF HasValue(region.pen)
             THEN IF ~InRange(image.pens, Value(region.pen)) THEN Thrown(c3)
                  ELSE Done(cairo_stroke(set_pen(c3, scale, At(image.pens, Value(region.pen)))))
             ELSE IF HasValue(region.brush) THEN Done(cairo_new_path(c3))
             ELSE Done(c3)

\* leaves the path on the surface after a fill that no stroke follows
ShapeRenderer_Region_fill_only(c, image, scale, region) ==
    IF ~InRange(region.data.curves, 0) THEN Thrown(c)
    ELSE LET c1 == put_path(c, scale, At(region.data.curves, 0), TRUE)
             c2 == put_sub_paths(c1, scale, region.data.curves, 1)
             brushOk == ~HasValue(region.brush)
                        \/ InRange(image.brushes, Value(region.brush))
             c3 == IF HasValue(region.brush) /\ brushOk
                   THEN cairo_fill_preserve(
                            set_brush(c2, scale, At(image.brushes, Value(region.brush))))
                   ELSE c2
         IN  IF ~brushOk THEN Thrown(c2)
             ELSE IF HasValue(region.pen)
             THEN IF ~InRange(image.pens, Value(region.pen)) THEN Thrown(c3)
                  ELSE Done(cairo_stroke(set_pen(c3, scale, At(image.pens, Value(region.pen)))))
             ELSE IF HasValue(region.brush) THEN Done(c3)
             ELSE Done(cairo_new_path(c3))

ShapeRenderer_Region(c, image, scale, region) ==
    IF ~InRange(region.data.curves, 0) THEN Thrown(c)
    ELSE LET c1 == put_path(c, scale, At(region.data.curves, 0), TRUE)
             c2 == put_sub_paths(c1, scale, region.data.curves, 1)
             brushOk == ~HasValue(region.brush)
                        \/ InRange(image.brushes, Value(region.brush))
             c3 == IF HasValue(region.brush) /\ brushOk
                   THEN cairo_fill_preserve(
                            set_brush(c2, scale, At(image.brushes, Value(region.brush))))
                   ELSE c2
         IN  IF ~brushOk THEN Thrown(c2)
             ELSE IF HasValue(region.pen)
             THEN IF ~InRange(image.pens, Value(region.pen)) THEN Thrown(c3)
                  ELSE Done(cairo_stroke(set_pen(c3, scale, At(image.pens, Value(region.pen)))))
             ELSE Done(cairo_new_path(c3))

(***************************************************************************)
(* Input documents.  Every input is a pair of a JSON value tree (doc) and  *)
(* a description (desc) of how it differs from a valid document.           *)
(***************************************************************************)
N(n) == JNum(R(n))
P(a, b) == JArr(<<N(a), N(b)>>)

\* the value v with member name set to x, and with member name removed
With(v, name, x) == JObj((name :> x) @@ v.obj)
Without(v, name) == JObj([m \in (DOMAIN v.obj) \ {name} |-> v.obj[m]])

Mono(color) == JObj([type |-> JStr("monochrome"), color |-> color])

Linear(p1, c1, p2, c2) ==
    JObj(("type" :> JStr("linear-gradient")) @@ ("point-1" :> p1) @@ ("color-1" :> c1)
         @@ ("point-2" :> p2) @@ ("color-2" :> c2))

Radial(p1, r1, c1, p2, r2, c2) ==
    JObj(("type" :> JStr("radial-gradient")) @@ ("center-1" :> p1) @@ ("radius-1" :> r1)
         @@ ("color-1" :> c1) @@ ("center-2" :> p2) @@ ("radius-2" :> r2)
         @@ ("color-2" :> c2))

PenOf(pattern, width, cap, join) ==
    JObj([pattern |-> pattern, width |-> width, cap |-> JStr(cap), join |-> JStr(join)])

BrushOf(pattern) == JObj([pattern |-> pattern])

CurveOf(pen, data) == JObj([type |-> JStr("curve"), pen |-> pen, data |-> data])

\* pen and brush are optional (None or Some(json))
RegionOf(pen, brush, data) ==
    LET r0 == JObj([type |-> JStr("region"), data |-> data])
        r1 == IF HasValue(pen) THEN With(r0, "pen", Value(pen)) ELSE r0
    IN  IF HasValue(brush) THEN With(r1, "brush", Value(brush)) ELSE r1

GroupOf(content) == JObj([type |-> JStr("group"), content |-> JArr(content)])

Document(w, h, u, pens, brushes, shapes) ==
    JObj(("width" :> w) @@ ("height" :> h) @@ ("unit-per-inch" :> u)
         @@ ("pens" :> JArr(pens)) @@ ("brushes" :> JArr(brushes))
         @@ ("shapes" :> JArr(shapes)))

Red == JArr(<<N(1), N(0), N(0)>>)
HalfBlue == JArr(<<N(0), N(0), N(1), JNum(Q(1, 2))>>)

VMono == Mono(Red)
VLinear == Linear(P(0, 0), Red, P(4, 0), HalfBlue)
VRadial == Radial(P(1, 1), N(0), Red, P(1, 1), N(2), HalfBlue)

VPattern(i) == IF i % 3 = 1 THEN VMono ELSE IF i % 3 = 2 THEN VLinear ELSE VRadial

VPenAt(i) ==
    PenOf(VPattern(i), JNum(Q(i, 2)),
          IF i % 3 = 1 THEN "butt" ELSE IF i % 3 = 2 THEN "round" ELSE "square",
          IF i % 3 = 1 THEN "miter" ELSE IF i % 3 = 2 THEN "round" ELSE "bevel")

VBrushAt(i) == BrushOf(VPattern(i + 1))

Pens(n) == [i \in 1..n |-> VPenAt(i)]
Brushes(n) == [i \in 1..n |-> VBrushAt(i)]

Base(shapes) == Document(N(4), N(3), N(72), Pens(MaxPens), Brushes(MaxPens), shapes)

SegL == JArr(<<JStr("L"), P(1, 0)>>)
SegQ == JArr(<<JStr("Q"), P(3, 0), P(6, 0)>>)
SegQ2 == JArr(<<JStr("Q"), P(1, 2), P(2, 1)>>)
SegC == JArr(<<JStr("C"), P(1, 1), P(2, 2), P(3, 0)>>)

SegPool == {SegL, SegQ, SegQ2, SegC}

SeqsUpTo(S, n) == UNION {[1..k -> S] : k \in 0..n}

CurveDataPool == {JArr(<<st>> \o ss) : st \in {P(0, 0), P(1, 2)}, ss \in SeqsUpTo(SegPool, MaxSegs)}

VCurveData == JArr(<<P(0, 0), SegL, SegQ>>)
VCurve == CurveOf(N(0), VCurveData)
VRegion == RegionOf(Some(N(1)), Some(N(0)), JArr(<<VCurveData>>))
VGroup == GroupOf(<<VCurve>>)

RegionCurvePool == {VCurveData, JArr(<<P(1, 2), SegQ2>>), JArr(<<P(2, 2)>>)}

RegionDataPool ==
    {JArr(cs) : cs \in UNION {[1..k -> RegionCurvePool] : k \in 1..MaxCurves}}

OptIndexPool == {None} \cup {Some(N(i)) : i \in 0..(MaxPens - 1)}

\* shape nested in d Groups; with sibling, each Group also holds a valid Curve
\* before it
RECURSIVE Wrap(_, _, _)
Wrap(shape, d, sibling) ==
    IF d = 0 THEN shape
    ELSE GroupOf((IF sibling THEN <<VCurve>> ELSE <<>>) \o <<Wrap(shape, d - 1, sibling)>>)

D(kind, where, what, v) == [kind |-> kind, where |-> where, what |-> what, v |-> v]

In(desc_, doc) == [desc |-> desc_, doc |-> doc]

\* valid documents: every curve data and region data with the last pen and
\* brush, every pen and brush index with one curve data and region data
LastIndex == N(MaxPens - 1)

ValidShapeLists ==
    {<<CurveOf(LastIndex, cd)>> : cd \in CurveDataPool}
    \cup {<<CurveOf(N(i), VCurveData)>> : i \in 0..(MaxPens - 1)}
    \cup {<<RegionOf(pn, br, rd)>> : pn \in {None, Some(N(0))},
                                     br \in {None, Some(LastIndex)},
                                     rd \in RegionDataPool}
    \cup {<<RegionOf(pn, br, JArr(<<VCurveData>>))>>
            : pn \in OptIndexPool, br \in OptIndexPool}
    \cup {<<Wrap(sh, d, sb)>> : sh \in {VCurve, VRegion, GroupOf(<<>>)},
                                 d \in 1..MaxDepth, sb \in BOOLEAN}
    \cup {<<>>, <<VCurve, VRegion>>, <<VRegion, GroupOf(<<VCurve, VRegion>>), VCurve>>}

ValidInputs ==
    {In(D("valid", "", "", R(0)), Base(sl)) : sl \in ValidShapeLists}
    \cup {In(D("valid", "", "", R(0)),
             Document(N(4), N(3), N(u), Pens(MaxPens), Brushes(MaxPens), <<VCurve, VRegion>>))
          : u \in {36, 96}}

\* a Curve or Region with an index that is not below the length of the array
DanglingLeaves(np, nb) ==
    {[where |-> "curve-pen", k |-> k, shape |-> CurveOf(N(k), VCurveData)]
       : k \in np..(SizeLimit + 1)}
    \cup {[where |-> "region-pen", k |-> k,
           shape |-> RegionOf(Some(N(k)), br, JArr(<<VCurveData>>))]
            : k \in np..(SizeLimit + 1),
              br \in {None} \cup {Some(N(i)) : i \in 0..(nb - 1)}}
    \cup {[where |-> "region-brush", k |-> k,
           shape |-> RegionOf(pn, Some(N(k)), JArr(<<VCurveData>>))]
            : k \in nb..(SizeLimit + 1),
              pn \in {None} \cup {Some(N(i)) : i \in 0..(np - 1)}}

DanglingFor(np, nb) ==
    {In(D("dangling", l.where, IF l.k < SizeLimit THEN "size_t" ELSE "huge", R(l.k)),
        Document(N(4), N(3), N(72), Pens(np), Brushes(nb), <<Wrap(l.shape, d, sb)>>))
       : l \in DanglingLeaves(np, nb), d \in 0..MaxDepth,
         sb \in IF np = 0 THEN {FALSE} ELSE BOOLEAN}

DanglingInputs ==
    UNION {DanglingFor(n, n) : n \in 0..MaxPens}
    \cup DanglingFor(0, MaxPens) \cup DanglingFor(MaxPens, 0)

\* a Region whose data is the empty array
EmptyRegionInputs ==
    {In(D("empty_region", "", "", R(d)),
        Base(<<Wrap(RegionOf(pn, br, JArr(<<>>)), d, sb)>>))
       : pn \in OptIndexPool, br \in OptIndexPool, d \in 0..MaxDepth, sb \in BOOLEAN}

\* one member added to one object of an otherwise valid document
ObjectTypes ==
    {"Image", "Pen", "Brush", "Monochrome", "LinearGradient", "RadialGradient",
     "Group", "Curve", "Region"}

MemberNames ==
    {"width", "height", "unit-per-inch", "pens", "brushes", "shapes", "editor",
     "pattern", "cap", "join", "type", "color", "point-1", "color-1", "point-2",
     "color-2", "center-1", "radius-1", "center-2", "radius-2", "content",
     "edit-annot", "pen", "brush", "data", "extra"}

\* the members the grammar gives each object type
GrammarMembers(T) ==
    CASE T = "Image" -> {"width", "height", "unit-per-inch", "pens", "brushes", "shapes"}
      [] T = "Pen" -> {"pattern", "width", "cap", "join"}
      [] T = "Brush" -> {"pattern"}
      [] T = "Monochrome" -> {"type", "color"}
      [] T = "LinearGradient" -> {"type", "point-1", "color-1", "point-2", "color-2"}
      [] T = "RadialGradient" ->
            {"type", "center-1", "radius-1", "color-1", "center-2", "radius-2", "color-2"}
      [] T = "Group" -> {"type", "content"}
      [] T = "Curve" -> {"type", "pen", "data"}
      [] T = "Region" -> {"type", "pen", "brush", "data"}

BaseObject(T) ==
    CASE T = "Image" -> Base(<<VCurve, VRegion>>)
      [] T = "Pen" -> VPenAt(1)
      [] T = "Brush" -> VBrushAt(1)
      [] T = "Monochrome" -> VMono
      [] T = "LinearGradient" -> VLinear
      [] T = "RadialGradient" -> VRadial
      [] T = "Group" -> VGroup
      [] T = "Curve" -> VCurve
      [] T = "Region" -> VRegion

\* the places an object of type T is put at: a pattern goes into a pen (0) or
\* a brush (1), a shape under that many Groups
Sites(T) ==
    IF T \in {"Image", "Pen", "Brush"} THEN {0}
    ELSE IF T \in {"Monochrome", "LinearGradient", "RadialGradient"} THEN {0, 1}
    ELSE 0..MaxDepth

PensWith(pen) == [Pens(MaxPens) EXCEPT ![1] = pen]
BrushesWith(brush) == [Brushes(MaxPens) EXCEPT ![1] = brush]

DocWithPen(pen) ==
    Document(N(4), N(3), N(72), PensWith(pen), Brushes(MaxPens), <<VCurve, VRegion>>)

DocWithBrush(brush) ==
    Document(N(4), N(3), N(72), Pens(MaxPens), BrushesWith(brush), <<VCurve, VRegion>>)

DocWithPattern(pattern, site) ==
    IF site = 0 THEN DocWithPen(PenOf(pattern, N(1), "butt", "miter"))
    ELSE DocWithBrush(BrushOf(pattern))

\* the document holding object o of type T at site
Host(T, o, site) ==
    IF T = "Image" THEN o
    ELSE IF T = "Pen" THEN DocWithPen(o)
    ELSE IF T = "Brush" THEN DocWithBrush(o)
    ELSE IF T \in {"Monochrome", "LinearGradient", "RadialGradient"}
    THEN DocWithPattern(o, site)
    ELSE Base(<<Wrap(o, site, TRUE)>>)

ExtraValues == {JNull, JStr("x"), N(0)}

ExtraInputs ==
    UNION {{In(D("extra", T, n, R(site)), Host(T, With(BaseObject(T), n, x), site))
              : n \in MemberNames \ GrammarMembers(T), x \in ExtraValues,
                site \in Sites(T)}
           : T \in ObjectTypes}

\* one violation inside the pattern, point or color grammar
BadColors ==
    {[what |-> "color-not-array", j |-> N(1)],
     [what |-> "color-length-0", j |-> JArr(<<>>)],
     [what |-> "color-length-2", j |-> JArr(<<N(1), N(0)>>)],
     [what |-> "color-length-5", j |-> JArr(<<N(1), N(0), N(0), N(1), N(1)>>)],
     [what |-> "channel-above-1", j |-> JArr(<<N(0), N(2), N(0)>>)],
     [what |-> "channel-below-0", j |-> JArr(<<N(0), N(0), JNum(Q(-1, 2))>>)],
     [what |-> "channel-not-number", j |-> JArr(<<JStr("1"), N(0), N(0)>>)],
     [what |-> "alpha-above-1", j |-> JArr(<<N(0), N(0), N(0), JNum(Q(3, 2))>>)]}

BadPoints ==
    {[what |-> "point-not-array", j |-> N(0)],
     [what |-> "point-length-1", j |-> JArr(<<N(0)>>)],
     [what |-> "point-length-3", j |-> JArr(<<N(0), N(0), N(0)>>)],
     [what |-> "point-element-not-number", j |-> JArr(<<N(0), JNull>>)]}

BadPatterns ==
    {[what |-> "pattern-not-object", j |-> N(1)],
     [what |-> "type-missing", j |-> Without(VMono, "type")],
     [what |-> "type-not-string", j |-> With(VMono, "type", N(1))],
     [what |-> "type-unknown", j |-> With(VMono, "type", JStr("conic-gradient"))],
     [what |-> "color-missing", j |-> Without(VMono, "color")],
     [what |-> "radius-negative", j |-> With(VRadial, "radius-1", N(-1))],
     [what |-> "radius-not-number", j |-> With(VRadial, "radius-2", JStr("2"))]}
    \cup {[what |-> c.what, j |-> Mono(c.j)] : c \in BadColors}
    \cup {[what |-> c.what, j |-> With(VLinear, "color-2", c.j)] : c \in BadColors}
    \cup {[what |-> c.what, j |-> With(VRadial, "color-1", c.j)] : c \in BadColors}
    \cup {[what |-> q.what, j |-> With(VLinear, "point-1", q.j)] : q \in BadPoints}
    \cup {[what |-> q.what, j |-> With(VRadial, "center-2", q.j)] : q \in BadPoints}

BadPointShapes ==
    {[what |-> q.what, j |-> CurveOf(N(0), JArr(<<q.j, SegL>>))] : q \in BadPoints}
    \cup {[what |-> q.what, j |-> CurveOf(N(0), JArr(<<P(0, 0), JArr(<<JStr("L"), q.j>>)>>))]
            : q \in BadPoints}
    \cup {[what |-> q.what,
           j |-> RegionOf(None, Some(N(0)),
                          JArr(<<JArr(<<P(0, 0), JArr(<<JStr("Q"), P(1, 1), q.j>>)>>)>>))]
            : q \in BadPoints}

BadPatternInputs ==
    {In(D("bad_pattern", IF site = 0 THEN "pen" ELSE "brush", b.what, R(0)),
        DocWithPattern(b.j, site)) : b \in BadPatterns, site \in {0, 1}}
    \cup {In(D("bad_pattern", "shape", b.what, R(d)), Base(<<Wrap(b.j, d, TRUE)>>))
            : b \in BadPointShapes, d \in 0..MaxDepth}

\* one number of an otherwise valid document replaced by v
NumberPool == {Q(-2, 1), Q(-1, 2), Q(0, 1), Q(1, 4), Q(1, 2), Q(1, 1), Q(3, 2), Q(2, 1)}

NumberFields ==
    {"width", "height", "unit-per-inch", "pen.width", "radius-1", "radius-2",
     "red", "green", "blue", "alpha"}

ChannelIndex(field) ==
    CASE field = "red" -> 1 [] field = "green" -> 2 [] field = "blue" -> 3
      [] field = "alpha" -> 4

NumberDoc(field, v, site) ==
    IF field \in {"width", "height", "unit-per-inch"}
    THEN With(Base(<<VCurve, VRegion>>), field, JNum(v))
    ELSE IF field = "pen.width" THEN DocWithPen(With(VPenAt(1), "width", JNum(v)))
    ELSE IF field \in {"radius-1", "radius-2"}
    THEN DocWithPattern(With(VRadial, field, JNum(v)), site)
    ELSE DocWithPattern(Mono(JArr([HalfBlue.arr EXCEPT ![ChannelIndex(field)] = JNum(v)])),
                        site)

NumberInputs ==
    {In(D("number", field, IF site = 0 THEN "pen" ELSE "brush", v),
        NumberDoc(field, v, site))
       : field \in NumberFields, v \in NumberPool, site \in {0, 1}}

\* a text that is not JSON, and JSON values that are not objects
MalformedInputs ==
    {In(D("malformed", "text", "", R(0)), BadText),
     In(D("malformed", "top", "", R(0)), N(1)),
     In(D("malformed", "top", "", R(0)), JArr(<<>>))}

\* minimal documents: positive width, height and unit-per-inch, empty pens,
\* brushes and shapes, with or without an "editor" member of any value
PositivePool == {Q(1, 4), Q(3, 2), R(4), R(72)}

EditorValues ==
    {JNull, JStr("lison-edit 1.0"), N(-1), JArr(<<>>), JArr(<<N(1), JStr("a"), JNull>>),
     JObj([name |-> JStr("e"), version |-> N(2)]), Base(<<VCurve>>),
     With(Base(<<>>), "width", N(-4))}

MinimalInputs ==
    {In(D("minimal", "", "", R(0)), Document(JNum(w), JNum(h), JNum(u), <<>>, <<>>, <<>>))
       : w \in PositivePool, h \in {Q(1, 4), R(3)}, u \in PositivePool}
    \cup {In(D("minimal", "editor", "", R(0)),
             With(Document(JNum(w), JNum(h), JNum(u), <<>>, <<>>, <<>>), "editor", e))
            : w \in {Q(1, 4), R(4)}, h \in {R(3)}, u \in {Q(3, 2), R(72)},
              e \in EditorValues}

\* documents with any number of violations: each member of the Image is
\* valid or violates the grammar in one of the ways named here
NumberStates == {"ok", "bad"}
PensStates == {"ok", "missing", "not-array", "bad-element"}
BrushesStates == {"ok", "not-array", "bad-element"}
ShapesStates == {"ok", "not-array", "bad-element", "dangling"}

\* the member name of doc in state st, where good is its valid value and bad
\* its value in the other states
Violate(doc, name, st, good, bad) ==
    IF st = "missing" THEN Without(doc, name)
    ELSE With(doc, name, IF st = "ok" THEN good ELSE bad)

PriorityDoc(w, h, u, pn, br, sh, extra) ==
    LET d0 == JObj(<<>>)
        d1 == Violate(d0, "width", w, N(4), N(0))
        d2 == Violate(d1, "height", h, N(3), JStr("3"))
        d3 == Violate(d2, "unit-per-inch", u, N(72), N(-72))
        d4 == Violate(d3, "pens", pn, JArr(Pens(1)),
                      IF pn = "not-array" THEN JObj(<<>>)
                      ELSE JArr(<<VPenAt(1), With(VPenAt(2), "cap", JStr("flat"))>>))
        d5 == Violate(d4, "brushes", br, JArr(Brushes(1)),
                      IF br = "not-array" THEN N(0)
                      ELSE JArr(<<BrushOf(Mono(JArr(<<N(2), N(0), N(0)>>)))>>))
        d6 == Violate(d5, "shapes", sh, JArr(<<CurveOf(N(0), VCurveData)>>),
                      IF sh = "not-array" THEN JStr("none")
                      ELSE IF sh = "bad-element"
                      THEN JArr(<<CurveOf(N(0), VCurveData),
                                  GroupOf(<<CurveOf(N(0), JArr(<<>>))>>)>>)
                      ELSE JArr(<<GroupOf(<<CurveOf(N(1), VCurveData)>>)>>))
    IN  IF extra THEN With(d6, "extra", JNull) ELSE d6

PriorityInputs ==
    {In([kind |-> "priority", where |-> "", what |-> "", v |-> R(0),
         width |-> w, height |-> h, upi |-> u, pens |-> pn, brushes |-> br,
         shapes |-> sh, extra |-> extra],
        PriorityDoc(w, h, u, pn, br, sh, extra))
       : w \in NumberStates \cup {"missing"}, h \in NumberStates, u \in NumberStates,
         pn \in PensStates, br \in BrushesStates, sh \in ShapesStates,
         extra \in BOOLEAN}

Inputs ==
    ValidInputs \cup DanglingInputs \cup EmptyRegionInputs \cup ExtraInputs
    \cup BadPatternInputs \cup NumberInputs \cup MalformedInputs \cup MinimalInputs
    \cup PriorityInputs

\* ub is read only by the conversion of a number std::size_t cannot hold
UBOutcomes(desc_) ==
    IF desc_.kind = "dangling" /\ desc_.what = "huge" THEN 0..(SizeLimit - 1) ELSE {0}

Resolutions == {R(72), R(144)}
Magnifications == {R(1), R(2)}

\* the surface the caller hands to render: fresh, or with a path left on it
CallerSurfaces ==
    {Surface0, [Surface0 EXCEPT !.path = <<<<"M", R(9), R(9)>>, <<"L", R(8), R(8)>>>>,
                                !.point = Some(<<R(8), R(8)>>),
                                !.start = Some(<<R(9), R(9)>>)]}

NoResult == [ok |-> FALSE, err |-> "none"]

(***************************************************************************)
(* The program: parse the input, then render the Image onto the surface.   *)
(***************************************************************************)
Init ==
    /\ \E i \in Inputs :
          /\ input = i.doc
          /\ desc = i.desc
          /\ ub \in UBOutcomes(i.desc)
    /\ pc = "start"
    /\ result = NoResult
    /\ ppi = R(0)
    /\ mag = R(0)
    /\ cr = Surface0
    /\ stack = <<>>
    /\ blocks = <<>>

Parse ==
    /\ pc = "start"
    /\ result' = parse(input)
    /\ pc' = IF result'.ok THEN "parsed" ELSE "failed"
    /\ UNCHANGED <<input, desc, ub, ppi, mag, cr, stack, blocks>>

\* does not discard the path the caller left on the surface
render_keep_path(im, c, p, s) ==
    /\ ppi' = p
    /\ mag' = s
    /\ cr' = Call(Call(Call(c, "cairo_set_operator", <<"CAIRO_OPERATOR_OVER">>),
                       "cairo_set_fill_rule", <<"CAIRO_FILL_RULE_EVEN_ODD">>),
                  "cairo_new_path", <<>>)
    /\ stack' = im.shapes
    /\ pc' = "render"

\* render, up to the loop over im.shapes
render(im, c, p, s) ==
    /\ ppi' = p
    /\ mag' = s
    /\ cr' = cairo_new_path(
                 Call(Call(c, "cairo_set_operator", <<"CAIRO_OPERATOR_OVER">>),
                      "cairo_set_fill_rule", <<"CAIRO_FILL_RULE_EVEN_ODD">>))
    /\ stack' = im.shapes
    /\ pc' = "render"

Render ==
    /\ pc = "parsed"
    /\ \E p \in Resolutions, s \in Magnifications, c \in CallerSurfaces :
          render(result.val, c, p, s)
    /\ UNCHANGED <<input, desc, ub, result, blocks>>

Scale == CoordTransformer(result.val, ppi, mag)

\* visits the content of a Group after the shapes that follow the Group
VisitGroup_after_siblings ==
    /\ pc = "render"
    /\ stack # <<>>
    /\ Head(stack).kind = "Group"
    /\ stack' = Tail(stack) \o Head(stack).content
    /\ UNCHANGED <<pc, input, desc, ub, result, ppi, mag, cr, blocks>>

\* the shapes still to visit, in order, are kept in stack
VisitGroup ==
    /\ pc = "render"
    /\ stack # <<>>
    /\ Head(stack).kind = "Group"
    /\ stack' = Head(stack).content \o Tail(stack)
    /\ UNCHANGED <<pc, input, desc, ub, result, ppi, mag, cr, blocks>>

Leaf(out) ==
    /\ cr' = out.cr
    /\ blocks' = Append(blocks, [shape |-> Head(stack),
                                 first |-> Len(cr.calls) + 1,
                                 last |-> Len(out.cr.calls),
                                 path |-> cr.path])
    /\ stack' = Tail(stack)
    /\ pc' = IF out.thrown THEN "out_of_range" ELSE "render"

VisitCurve ==
    /\ pc = "render"
    /\ stack # <<>>
    /\ Head(stack).kind = "Curve"
    /\ Leaf(ShapeRenderer_Curve(cr, result.val, Scale, Head(stack)))
    /\ UNCHANGED <<input, desc, ub, result, ppi, mag>>

VisitRegion ==
    /\ pc = "render"
    /\ stack # <<>>
    /\ Head(stack).kind = "Region"
    /\ Leaf(ShapeRenderer_Region(cr, result.val, Scale, Head(stack)))
    /\ UNCHANGED <<input, desc, ub, result, ppi, mag>>

Return ==
    /\ pc = "render"
    /\ stack = <<>>
    /\ pc' = "done"
    /\ UNCHANGED <<input, desc, ub, result, ppi, mag, cr, stack, blocks>>

Next == Parse \/ Render \/ VisitGroup \/ VisitCurve \/ VisitRegion \/ Return

Spec == Init /\ [][Next]_vars

(***************************************************************************)
(* parse_color on its own: the input is any small JSON value, decoded in   *)
(* the context of a pen or of a brush.                                     *)
(***************************************************************************)
ChannelPool == {JNum(Q(-1, 2)), N(0), JNum(Q(1, 2)), N(1), JNum(Q(3, 2)), JStr("1")}

ColorInputs ==
    {JArr(a) : a \in SeqsUpTo(ChannelPool, MaxColorLen)}
    \cup {N(1), JNull, JStr("red"), JObj(<<>>)}

InitColor ==
    /\ input \in ColorInputs
    /\ \E ctx \in {"bad_pen", "bad_brush"} : desc = D("color", ctx, "", R(0))
    /\ ub = 0
    /\ pc = "color"
    /\ result = NoResult
    /\ ppi = R(0)
    /\ mag = R(0)
    /\ cr = Surface0
    /\ stack = <<>>
    /\ blocks = <<>>

ParseColor ==
    /\ pc = "color"
    /\ result' = parse_color(input, desc.where)
    /\ pc' = "color_done"
    /\ UNCHANGED <<input, desc, ub, ppi, mag, cr, stack, blocks>>

NextColor == ParseColor

SpecColor == InitColor /\ [][NextColor]_vars

(***************************************************************************)
(* parse_segment on its own: the input is any small JSON value.            *)
(***************************************************************************)
BadPointValues ==
    {JArr(<<N(0)>>), JArr(<<N(0), JStr("1")>>), JArr(<<N(0), N(0), N(0)>>)}

\* what stands at element 0, and what stands at the later elements
TagPool == {JStr("L"), JStr("Q"), JStr("C"), JStr("Z"), N(0), P(1, 2)}

SegmentRestPool == {P(1, 2), P(3, 0), JStr("L")} \cup BadPointValues

SegmentInputs ==
    {JArr(<<>>), N(1), JNull, JStr("L"), JObj([L |-> P(1, 2)])}
    \cup {JArr(<<t>> \o r) : t \in TagPool,
                              r \in SeqsUpTo(SegmentRestPool, MaxSegmentLen - 1)}

InitSegment ==
    /\ input \in SegmentInputs
    /\ desc = D("segment", "", "", R(0))
    /\ ub = 0
    /\ pc = "segment"
    /\ result = NoResult
    /\ ppi = R(0)
    /\ mag = R(0)
    /\ cr = Surface0
    /\ stack = <<>>
    /\ blocks = <<>>

ParseSegment ==
    /\ pc = "segment"
    /\ result' = parse_segment(input)
    /\ pc' = "segment_done"
    /\ UNCHANGED <<input, desc, ub, ppi, mag, cr, stack, blocks>>

NextSegment == ParseSegment

SpecSegment == InitSegment /\ [][NextSegment]_vars

(***************************************************************************)
(* parse_curve_data on its own: the input is any small JSON value.         *)
(***************************************************************************)
CurveDataElemPool ==
    {P(0, 0), P(1, 2), JArr(<<N(0)>>), SegL, SegC, JArr(<<JStr("L")>>), JArr(<<>>), N(1)}

CurveDataInputs ==
    {N(1), JNull, JStr("curve"), JObj([start |-> P(0, 0)])}
    \cup {JArr(a) : a \in SeqsUpTo(CurveDataElemPool, MaxCurveDataLen)}

InitCurveData ==
    /\ input \in CurveDataInputs
    /\ desc = D("curve_data", "", "", R(0))
    /\ ub = 0
    /\ pc = "curve_data"
    /\ result = NoResult
    /\ ppi = R(0)
    /\ mag = R(0)
    /\ cr = Surface0
    /\ stack = <<>>
    /\ blocks = <<>>

ParseCurveData ==
    /\ pc = "curve_data"
    /\ result' = parse_curve_data(input)
    /\ pc' = "curve_data_done"
    /\ UNCHANGED <<input, desc, ub, ppi, mag, cr, stack, blocks>>

NextCurveData == ParseCurveData

SpecCurveData == InitCurveData /\ [][NextCurveData]_vars

(***************************************************************************)
(* Properties                                                              *)
(***************************************************************************)
Parsed == pc \in {"parsed", "failed", "render", "done", "out_of_range"}

Failed(kind) == ~result.ok /\ result.err = kind

\* C1: an otherwise valid document in which a Curve's pen index, or a
\* Region's pen or brush index, is not below the length of the pens (resp.
\* brushes) array is rejected with bad_shape, at any nesting depth.
DanglingIndexIsBadShape ==
    (Parsed /\ desc.kind = "dangling") => Failed("bad_shape")

RECURSIVE RegionsHaveCurves(_)
RegionsHaveCurves(shape) ==
    IF shape.kind = "Group"
    THEN \A i \in 1..Len(shape.content) : RegionsHaveCurves(shape.content[i])
    ELSE shape.kind = "Region" => Len(shape.data.curves) >= 1

\* C2: every Region of an Image that parse returns has at least one curve; a
\* document with a Region whose data is [] is rejected.
RegionDataNonEmpty ==
    (Parsed /\ result.ok) =>
        \A i \in 1..Len(result.val.shapes) : RegionsHaveCurves(result.val.shapes[i])

\* C3: render of an Image that parse returned runs to completion; no
\* vector::at it performs is out of range.
RenderNeverThrows == pc # "out_of_range"

Tolerated(T, n) ==
    (T = "Image" /\ n = "editor") \/ (T = "Group" /\ n = "edit-annot")

\* C4: a valid object of any type of the grammar with one added member whose
\* name is not a member of that type makes parse fail, except "editor" on the
\* Image and "edit-annot" on a Group.
ClosedSchema ==
    (Parsed /\ desc.kind = "extra") => (result.ok <=> Tolerated(desc.where, desc.what))

ClosedSchemaWitness ==
    /\ pc = "failed"
    /\ desc.kind = "extra"
    /\ desc.where = "Curve"
    /\ desc.what = "edit-annot"

InUnit(v) == IsNum(v) /\ RLe(R(0), v.num) /\ RLe(v.num, R(1))

IsColorJson(v) ==
    /\ IsArr(v)
    /\ Len(v.arr) \in {3, 4}
    /\ \A i \in 1..Len(v.arr) : InUnit(v.arr[i])

\* C6: a JSON value decodes as a Color iff it is an array of 3 or 4 numbers
\* in [0,1]; red, green, blue are elements 0..2, alpha is element 3, or
\* exactly 1 for an array of 3.
ColorDecoding ==
    pc = "color_done" =>
        /\ result.ok <=> IsColorJson(input)
        /\ result.ok =>
              /\ result.val.red = input.arr[1].num
              /\ result.val.green = input.arr[2].num
              /\ result.val.blue = input.arr[3].num
              /\ result.val.alpha = IF Len(input.arr) = 3 THEN R(1) ELSE input.arr[4].num
        /\ ~result.ok => result.err = desc.where

ColorDecodingWitness ==
    /\ pc = "color_done"
    /\ IsArr(input)
    /\ Len(input.arr) = 3
    /\ result.ok
    /\ result.val.alpha = R(1)
    /\ result.val.blue = Q(1, 2)

Positive(r) == r[1] > 0
NonNegative(r) == r[1] >= 0
Unit(r) == r[1] >= 0 /\ r[1] <= r[2]

ColorInDomain(color) ==
    Unit(color.red) /\ Unit(color.green) /\ Unit(color.blue) /\ Unit(color.alpha)

PatternInDomain(pattern) ==
    IF pattern.kind = "Monochrome" THEN ColorInDomain(pattern.color)
    ELSE /\ ColorInDomain(pattern.color1)
         /\ ColorInDomain(pattern.color2)
         /\ pattern.kind = "RadialGradient" =>
               NonNegative(pattern.radius1) /\ NonNegative(pattern.radius2)

ImageInDomain(im) ==
    /\ Positive(im.width)
    /\ Positive(im.height)
    /\ Positive(im.unit_per_inch)
    /\ \A i \in 1..Len(im.pens) :
          Positive(im.pens[i].width) /\ PatternInDomain(im.pens[i].pattern)
    /\ \A i \in 1..Len(im.brushes) : PatternInDomain(im.brushes[i].pattern)

\* the domain of the number that desc.where names
NumberInDomain(field, v) ==
    IF field \in {"width", "height", "unit-per-inch", "pen.width"} THEN Positive(v)
    ELSE IF field \in {"radius-1", "radius-2"} THEN NonNegative(v)
    ELSE Unit(v)

\* the decoded pattern that the replaced number went into
PatternAt(im, site) == IF site = "pen" THEN im.pens[1].pattern ELSE im.brushes[1].pattern

DecodedNumber(im, field, site) ==
    CASE field = "width" -> im.width
      [] field = "height" -> im.height
      [] field = "unit-per-inch" -> im.unit_per_inch
      [] field = "pen.width" -> im.pens[1].width
      [] field = "radius-1" -> PatternAt(im, site).radius1
      [] field = "radius-2" -> PatternAt(im, site).radius2
      [] field = "red" -> PatternAt(im, site).color.red
      [] field = "green" -> PatternAt(im, site).color.green
      [] field = "blue" -> PatternAt(im, site).color.blue
      [] field = "alpha" -> PatternAt(im, site).color.alpha

\* C7: in every decoded Image width, height, unit_per_inch and pen widths are
\* > 0, radii >= 0 and channels in [0,1]; a number outside its domain is
\* rejected, one inside is accepted and decoded to itself.
NumericDomains ==
    /\ (Parsed /\ result.ok) => ImageInDomain(result.val)
    /\ (Parsed /\ desc.kind = "number") =>
          /\ result.ok <=> NumberInDomain(desc.where, desc.v)
          /\ result.ok => DecodedNumber(result.val, desc.where, desc.what) = desc.v

NumericDomainsWitness ==
    /\ pc = "failed"
    /\ desc.kind = "number"
    /\ desc.where = "pen.width"
    /\ desc.v = R(0)

\* the names of the calls a leaf shape issued
BlockOps(b) == [i \in 1..(b.last - b.first + 1) |-> cr.calls[b.first + i - 1].op]

BlockCalls(b) == [i \in 1..(b.last - b.first + 1) |-> cr.calls[b.first + i - 1]]

Count(ops, op) == Cardinality({i \in 1..Len(ops) : ops[i] = op})

SegmentOp(seg) == IF seg.kind = "LineSegment" THEN "cairo_line_to" ELSE "cairo_curve_to"

ContourOps(data) ==
    <<"cairo_move_to">> \o [i \in 1..Len(data.segments) |-> SegmentOp(data.segments[i])]
    \o <<"cairo_close_path">>

RECURSIVE ContoursOps(_)
ContoursOps(curves) ==
    IF Len(curves) = 1 THEN ContourOps(curves[1])
    ELSE ContoursOps(SubSeq(curves, 1, Len(curves) - 1))
         \o <<"cairo_new_sub_path">> \o ContourOps(curves[Len(curves)])

SourceOps(pattern) ==
    IF pattern.kind = "Monochrome" THEN <<"cairo_set_source_rgba">>
    ELSE <<IF pattern.kind = "LinearGradient" THEN "cairo_pattern_create_linear"
           ELSE "cairo_pattern_create_radial",
           "cairo_pattern_add_color_stop_rgba", "cairo_pattern_add_color_stop_rgba",
           "cairo_set_source">>

StrokeOps(pen) ==
    SourceOps(pen.pattern)
    \o <<"cairo_set_line_width", "cairo_set_line_cap", "cairo_set_line_join", "cairo_stroke">>

PaintOps == {"cairo_new_path", "cairo_fill", "cairo_fill_preserve", "cairo_stroke"}

\* a Region block of the walk, with at least one curve
RegionBlock(b) == b.shape.kind = "Region" /\ Len(b.shape.data.curves) >= 1

\* C8: a Region with n curves issues n close-sub-path and n - 1
\* start-new-sub-path calls and no discard, fill or stroke call before the
\* last contour is closed; with a brush and a pen the calls are, in order,
\* the contours (each move-to, segments, close; a new-sub-path between two),
\* the brush's source, fill-preserve, the pen's source and stroke parameters,
\* stroke.
RegionCallOrder ==
    \A k \in 1..Len(blocks) :
        LET b == blocks[k]
            r == b.shape
            ops == BlockOps(b)
            n == Len(r.data.curves)
        IN  RegionBlock(b) =>
              /\ Count(ops, "cairo_close_path") = n
              /\ Count(ops, "cairo_new_sub_path") = n - 1
              /\ \A i, j \in 1..Len(ops) :
                    (i < j /\ ops[j] = "cairo_close_path") => ops[i] \notin PaintOps
              /\ (HasValue(r.pen) /\ HasValue(r.brush)) =>
                    ops = ContoursOps(r.data.curves)
                          \o SourceOps(At(result.val.brushes, Value(r.brush)).pattern)
                          \o <<"cairo_fill_preserve">>
                          \o StrokeOps(At(result.val.pens, Value(r.pen)))

RegionCallOrderWitness ==
    /\ pc = "done"
    /\ \E k \in 1..Len(blocks) :
          /\ blocks[k].shape.kind = "Region"
          /\ Len(blocks[k].shape.data.curves) = 2
          /\ HasValue(blocks[k].shape.pen)
          /\ HasValue(blocks[k].shape.brush)
          /\ Count(BlockOps(blocks[k]), "cairo_new_sub_path") = 1

PathConstructionOps ==
    {"cairo_move_to", "cairo_line_to", "cairo_curve_to", "cairo_close_path",
     "cairo_new_sub_path"}

\* C9: a Region with neither pen nor brush issues its path-construction calls
\* followed by exactly one discard-current-path call, and nothing else before
\* the next shape.
BareRegionDiscards ==
    \A k \in 1..Len(blocks) :
        LET b == blocks[k]
            r == b.shape
            ops == BlockOps(b)
        IN  (RegionBlock(b) /\ ~HasValue(r.pen) /\ ~HasValue(r.brush)) =>
              /\ Len(ops) >= 1
              /\ ops[Len(ops)] = "cairo_new_path"
              /\ \A i \in 1..(Len(ops) - 1) : ops[i] \in PathConstructionOps
              /\ SubSeq(ops, 1, Len(ops) - 1) = ContoursOps(r.data.curves)

BareRegionWitness ==
    /\ pc = "done"
    /\ \E k \in 1..Len(blocks) :
          /\ blocks[k].shape.kind = "Region"
          /\ Len(blocks[k].shape.data.curves) = 2
          /\ ~HasValue(blocks[k].shape.pen)
          /\ ~HasValue(blocks[k].shape.brush)
          /\ cr.calls[blocks[k].last].op = "cairo_new_path"

\* P + (2/3)(Q - P)
TwoThirdsTowards(p, q) == RAdd(p, RMul(Q(2, 3), RSub(q, p)))

EndPoint(seg) ==
    IF seg.kind = "LineSegment" THEN seg.point2
    ELSE IF seg.kind = "QuadraticBezierSegment" THEN seg.point3
    ELSE seg.point4

\* the call for segment seg when the previous segment ended at p0 (transformed)
ExpectedSegmentCall(scale, p0, seg) ==
    IF seg.kind = "LineSegment"
    THEN LET p2 == transform_point(scale, seg.point2)
         IN  [op |-> "cairo_line_to", args |-> <<p2.x, p2.y>>]
    ELSE IF seg.kind = "QuadraticBezierSegment"
    THEN LET q1 == transform_point(scale, seg.point2)
             q3 == transform_point(scale, seg.point3)
         IN  [op |-> "cairo_curve_to",
              args |-> <<TwoThirdsTowards(p0.x, q1.x), TwoThirdsTowards(p0.y, q1.y),
                         TwoThirdsTowards(q3.x, q1.x), TwoThirdsTowards(q3.y, q1.y),
                         q3.x, q3.y>>]
    ELSE LET p2 == transform_point(scale, seg.point2)
             p3 == transform_point(scale, seg.point3)
             p4 == transform_point(scale, seg.point4)
         IN  [op |-> "cairo_curve_to", args |-> <<p2.x, p2.y, p3.x, p3.y, p4.x, p4.y>>]

ExpectedCurveCalls(scale, data) ==
    LET st == transform_point(scale, data.start)
    IN  <<[op |-> "cairo_move_to", args |-> <<st.x, st.y>>]>>
        \o [i \in 1..Len(data.segments) |->
              ExpectedSegmentCall(scale,
                  transform_point(scale, IF i = 1 THEN data.start
                                         ELSE EndPoint(data.segments[i - 1])),
                  data.segments[i])]

RECURSIVE ExpectedCurvesCalls(_, _)
ExpectedCurvesCalls(scale, curves) ==
    IF curves = <<>> THEN <<>>
    ELSE ExpectedCurveCalls(scale, Head(curves)) \o ExpectedCurvesCalls(scale, Tail(curves))

IsGeometry(call) == call.op \in {"cairo_move_to", "cairo_line_to", "cairo_curve_to"}

\* C10: the cubic issued for a Quadratic segment, with P0 the transformed end
\* of the previous segment of the same curve (the transformed start for the
\* first), Q1 the transformed control point and Q3 the transformed end point,
\* has control points P0 + (2/3)(Q1 - P0) and Q3 + (2/3)(Q1 - Q3) and end Q3.
QuadraticElevation ==
    \A k \in 1..Len(blocks) :
        LET b == blocks[k]
        IN  SelectSeq(BlockCalls(b), IsGeometry)
              = ExpectedCurvesCalls(Scale, IF b.shape.kind = "Curve"
                                           THEN <<b.shape.data>>
                                           ELSE b.shape.data.curves)

\* cursor (0,0), control (3,0), end (6,0) gives (2,0), (4,0), (6,0)
QuadraticElevationWitness ==
    /\ pc = "done"
    /\ Scale = R(1)
    /\ \E i \in 2..Len(cr.calls) :
          /\ cr.calls[i - 1].op = "cairo_move_to"
          /\ cr.calls[i - 1].args = <<R(0), R(0)>>
          /\ cr.calls[i].op = "cairo_curve_to"
          /\ cr.calls[i].args = <<R(2), R(0), R(4), R(0), R(6), R(0)>>
    /\ \E k \in 1..Len(blocks) :
          /\ blocks[k].shape.kind = "Curve"
          /\ Len(blocks[k].shape.data.segments) = 2
          /\ blocks[k].shape.data.segments[1].kind = "QuadraticBezierSegment"
          /\ blocks[k].shape.data.segments[2].kind = "QuadraticBezierSegment"

\* resolution / unit_per_inch * magnification
EffectiveScale == RMul(RDiv(ppi, result.val.unit_per_inch), mag)

Scaled(x) == RMul(x, EffectiveScale)

ScaledPoint(p) == <<Scaled(p.x), Scaled(p.y)>>

\* a leaf block of the walk that did not throw
LeafBlock(b) == b.shape.kind = "Curve" \/ RegionBlock(b)

\* the start point and the segments of a curve, in the order their calls are
\* issued
PathItems(data) ==
    <<[kind |-> "start", at |-> data.start]>>
    \o [i \in 1..Len(data.segments) |-> data.segments[i]]

RECURSIVE CurvesItems(_)
CurvesItems(curves) ==
    IF curves = <<>> THEN <<>>
    ELSE PathItems(Head(curves)) \o CurvesItems(Tail(curves))

LeafItems(shape) ==
    IF shape.kind = "Curve" THEN PathItems(shape.data)
    ELSE CurvesItems(shape.data.curves)

\* the call issued for item passes the item's points multiplied by the scale
GeometryScaled(item, call) ==
    CASE item.kind = "start" ->
            call.op = "cairo_move_to" /\ call.args = ScaledPoint(item.at)
      [] item.kind = "LineSegment" ->
            call.op = "cairo_line_to" /\ call.args = ScaledPoint(item.point2)
      [] item.kind = "CubicBezierSegment" ->
            /\ call.op = "cairo_curve_to"
            /\ call.args = ScaledPoint(item.point2) \o ScaledPoint(item.point3)
                           \o ScaledPoint(item.point4)
      [] item.kind = "QuadraticBezierSegment" -> call.op = "cairo_curve_to"

StopCalls(pattern) ==
    <<[op |-> "cairo_pattern_add_color_stop_rgba",
       args |-> <<R(0), pattern.color1.red, pattern.color1.green,
                  pattern.color1.blue, pattern.color1.alpha>>],
      [op |-> "cairo_pattern_add_color_stop_rgba",
       args |-> <<R(1), pattern.color2.red, pattern.color2.green,
                  pattern.color2.blue, pattern.color2.alpha>>],
      [op |-> "cairo_set_source", args |-> <<>>]>>

\* the paint-source calls of a pattern: points and radii scaled, channels and
\* stop offsets as they are
SourceScaled(pattern) ==
    IF pattern.kind = "Monochrome"
    THEN <<[op |-> "cairo_set_source_rgba",
            args |-> <<pattern.color.red, pattern.color.green,
                       pattern.color.blue, pattern.color.alpha>>]>>
    ELSE IF pattern.kind = "LinearGradient"
    THEN <<[op |-> "cairo_pattern_create_linear",
            args |-> ScaledPoint(pattern.point1) \o ScaledPoint(pattern.point2)]>>
         \o StopCalls(pattern)
    ELSE <<[op |-> "cairo_pattern_create_radial",
            args |-> ScaledPoint(pattern.center1) \o <<Scaled(pattern.radius1)>>
                     \o ScaledPoint(pattern.center2) \o <<Scaled(pattern.radius2)>>]>>
         \o StopCalls(pattern)

PenScaled(pen) ==
    SourceScaled(pen.pattern)
    \o <<[op |-> "cairo_set_line_width", args |-> <<Scaled(pen.width)>>]>>

LeafSources(shape) ==
    IF shape.kind = "Curve" THEN PenScaled(At(result.val.pens, shape.pen))
    ELSE (IF HasValue(shape.brush)
          THEN SourceScaled(At(result.val.brushes, Value(shape.brush)).pattern)
          ELSE <<>>)
         \o (IF HasValue(shape.pen)
             THEN PenScaled(At(result.val.pens, Value(shape.pen)))
             ELSE <<>>)

IsSourceOrWidth(call) ==
    call.op \in {"cairo_set_source_rgba", "cairo_pattern_create_linear",
                 "cairo_pattern_create_radial", "cairo_pattern_add_color_stop_rgba",
                 "cairo_set_source", "cairo_set_line_width"}

Rendering == pc \in {"render", "done", "out_of_range"}

\* C11: with scale = resolution / unit_per_inch * magnification, every point
\* passed to move-to, line-to, the cubic of a Cubic segment, a linear
\* gradient's end points and a radial gradient's centers, and every pen width
\* and radial-gradient radius, is the model value times scale; color channels
\* and the stop offsets 0 and 1 are passed as they are; resolution 144,
\* unit_per_inch 72 and magnification 2 give scale 4 and (1,1) maps to (4,4).
CoordinateScaling ==
    Rendering =>
        /\ \A k \in 1..Len(blocks) :
              LET b == blocks[k]
                  geo == SelectSeq(BlockCalls(b), IsGeometry)
                  items == LeafItems(b.shape)
              IN  LeafBlock(b) =>
                    /\ Len(geo) = Len(items)
                    /\ \A i \in 1..Len(items) : GeometryScaled(items[i], geo[i])
                    /\ SelectSeq(BlockCalls(b), IsSourceOrWidth) = LeafSources(b.shape)
        /\ (ppi = R(144) /\ result.val.unit_per_inch = R(72) /\ mag = R(2)) =>
              /\ EffectiveScale = R(4)
              /\ ScaledPoint([x |-> R(1), y |-> R(1)]) = <<R(4), R(4)>>

\* at scale 4 the control point (1,1) of a Cubic segment is passed as (4,4),
\* and the linear gradient from (0,0) to (4,0) is created from (0,0) to (16,0)
CoordinateScalingWitness ==
    /\ pc = "done"
    /\ ppi = R(144)
    /\ mag = R(2)
    /\ result.val.unit_per_inch = R(72)
    /\ \E i \in 1..Len(cr.calls) :
          /\ cr.calls[i].op = "cairo_curve_to"
          /\ SubSeq(cr.calls[i].args, 1, 2) = <<R(4), R(4)>>
    /\ \E k \in 1..Len(blocks) :
          /\ blocks[k].shape.kind = "Curve"
          /\ \E j \in 1..Len(blocks[k].shape.data.segments) :
                /\ blocks[k].shape.data.segments[j].kind = "CubicBezierSegment"
                /\ blocks[k].shape.data.segments[j].point2 = [x |-> R(1), y |-> R(1)]
    /\ \E i \in 1..Len(cr.calls) :
          /\ cr.calls[i].op = "cairo_pattern_create_linear"
          /\ cr.calls[i].args = <<R(0), R(0), R(16), R(0)>>

\* the Curves and Regions of a shape list, in pre-order, list-order
RECURSIVE Leaves(_)
Leaves(shapes) ==
    IF shapes = <<>> THEN <<>>
    ELSE IF Head(shapes).kind = "Group"
    THEN Leaves(Head(shapes).content) \o Leaves(Tail(shapes))
    ELSE <<Head(shapes)>> \o Leaves(Tail(shapes))

CallOps == [i \in 1..Len(cr.calls) |-> cr.calls[i].op]

SourceCallOps ==
    {"cairo_set_source_rgba", "cairo_pattern_create_linear", "cairo_pattern_create_radial",
     "cairo_pattern_add_color_stop_rgba", "cairo_set_source", "cairo_set_line_width",
     "cairo_set_line_cap", "cairo_set_line_join"}

\* the calls that build, discard or paint a path
PathOrPaintOps == PathConstructionOps \cup PaintOps \cup SourceCallOps

\* operator and fill rule are set once each, before any path or paint call
SettingsOnceAndFirst ==
    /\ Count(CallOps, "cairo_set_operator") = 1
    /\ Count(CallOps, "cairo_set_fill_rule") = 1
    /\ \E i \in 1..Len(cr.calls) :
          cr.calls[i] = [op |-> "cairo_set_operator", args |-> <<"CAIRO_OPERATOR_OVER">>]
    /\ \E i \in 1..Len(cr.calls) :
          cr.calls[i] = [op |-> "cairo_set_fill_rule",
                         args |-> <<"CAIRO_FILL_RULE_EVEN_ODD">>]
    /\ \A i, j \in 1..Len(cr.calls) :
          (CallOps[i] \in PathOrPaintOps
           /\ CallOps[j] \in {"cairo_set_operator", "cairo_set_fill_rule"}) => j < i

\* the blocks are those of the leaves visited so far, in pre-order, each
\* starting where the one before it ended; first is the index of the first
\* call of the first block
LeafBlocksInOrder(first) ==
    /\ Len(blocks) <= Len(Leaves(result.val.shapes))
    /\ \A k \in 1..Len(blocks) :
          /\ blocks[k].shape = Leaves(result.val.shapes)[k]
          /\ blocks[k].first = IF k = 1 THEN first ELSE blocks[k - 1].last + 1
          /\ blocks[k].first <= blocks[k].last + 1
    /\ pc = "done" =>
          /\ Len(blocks) = Len(Leaves(result.val.shapes))
          /\ Len(cr.calls) = IF blocks = <<>> THEN first - 1
                                              ELSE blocks[Len(blocks)].last

\* C12 as stated: operator and fill rule are set exactly once each before any
\* path or paint call, the leaves' call blocks follow in pre-order, each
\* contiguous, a Group emits no call, and the render of an Image with no
\* shapes issues no path or paint call.
RenderOrderingNoPathCall ==
    Rendering =>
        /\ SettingsOnceAndFirst
        /\ \E first \in 1..(Len(cr.calls) + 1) : LeafBlocksInOrder(first)
        /\ (pc = "done" /\ result.val.shapes = <<>>) =>
              \A i \in 1..Len(cr.calls) : CallOps[i] \notin PathOrPaintOps

\* C12 amended: render sets operator (source-over) and fill rule (even-odd)
\* exactly once each and then issues one discard-current-path call, these
\* three before any other call; the leaves' call blocks follow in pre-order,
\* list-order, each contiguous; a Group emits no call of its own, so an empty
\* Group emits none and an Image with no shapes emits the three calls only.
RenderOrdering ==
    Rendering =>
        /\ SettingsOnceAndFirst
        /\ Len(cr.calls) >= 3
        /\ SubSeq(CallOps, 1, 3)
             = <<"cairo_set_operator", "cairo_set_fill_rule", "cairo_new_path">>
        /\ LeafBlocksInOrder(4)
        /\ (pc = "done" /\ Leaves(result.val.shapes) = <<>>) => Len(cr.calls) = 3

\* Region, Group of Curve and Region, Curve: four blocks in that order
RenderOrderingWitness ==
    /\ pc = "done"
    /\ Len(result.val.shapes) = 3
    /\ result.val.shapes[2].kind = "Group"
    /\ Len(blocks) = 4
    /\ [k \in 1..4 |-> blocks[k].shape.kind] = <<"Region", "Curve", "Region", "Curve">>
    /\ blocks[4].last = Len(cr.calls)

\* the Image with the width, height and unit-per-inch of document doc and
\* nothing else
MinimalImage(doc) ==
    [width |-> doc.obj["width"].num, height |-> doc.obj["height"].num,
     unit_per_inch |-> doc.obj["unit-per-inch"].num,
     pens |-> <<>>, brushes |-> <<>>, shapes |-> <<>>]

\* C13: a document with exactly width, height, unit-per-inch (each > 0) and
\* empty pens, brushes and shapes decodes to the Image with these three
\* numbers and empty pens, brushes and shapes; an added "editor" member of
\* any JSON value gives the result of the document without it.
MinimalImageDecodes ==
    (Parsed /\ desc.kind = "minimal") =>
        /\ result = Ok(MinimalImage(input))
        /\ desc.where = "editor" =>
              /\ "editor" \in DOMAIN input.obj
              /\ result = parse(Without(input, "editor"))

MinimalImageWitness ==
    /\ pc = "parsed"
    /\ desc.kind = "minimal"
    /\ desc.where = "editor"
    /\ IsObj(input.obj["editor"])
    /\ "shapes" \in DOMAIN input.obj["editor"].obj
    /\ result.ok
    /\ result.val.width = Q(1, 4)
    /\ result.val.shapes = <<>>

IsPointJson(v) == IsArr(v) /\ Len(v.arr) = 2 /\ IsNum(v.arr[1]) /\ IsNum(v.arr[2])

PointOf(v) == [x |-> v.arr[1].num, y |-> v.arr[2].num]

\* the length of a Segment array with tag
TagLength(tag) == CASE tag = "L" -> 2 [] tag = "Q" -> 3 [] tag = "C" -> 4

IsSegmentJson(v) ==
    /\ IsArr(v)
    /\ Len(v.arr) >= 1
    /\ IsStr(v.arr[1])
    /\ v.arr[1].str \in {"L", "Q", "C"}
    /\ Len(v.arr) = TagLength(v.arr[1].str)
    /\ \A i \in 2..Len(v.arr) : IsPointJson(v.arr[i])

\* the variant of the tag, with the points in positional order
SegmentOf(v) ==
    CASE v.arr[1].str = "L" ->
            [kind |-> "LineSegment", point2 |-> PointOf(v.arr[2])]
      [] v.arr[1].str = "Q" ->
            [kind |-> "QuadraticBezierSegment", point2 |-> PointOf(v.arr[2]),
             point3 |-> PointOf(v.arr[3])]
      [] v.arr[1].str = "C" ->
            [kind |-> "CubicBezierSegment", point2 |-> PointOf(v.arr[2]),
             point3 |-> PointOf(v.arr[3]), point4 |-> PointOf(v.arr[4])]

\* C14: a JSON value decodes as a Segment iff it is an array whose element 0
\* is "L", "Q" or "C", whose length is 2, 3 or 4 respectively and whose later
\* elements are Points; the variant is that of the tag, with the points in
\* positional order; any other value fails with bad_shape.
SegmentDecoding ==
    pc = "segment_done" =>
        /\ result.ok <=> IsSegmentJson(input)
        /\ result.ok => result.val = SegmentOf(input)
        /\ ~result.ok => result.err = "bad_shape"

SegmentDecodingWitness ==
    /\ pc = "segment_done"
    /\ input = JArr(<<JStr("Q"), P(1, 2), P(3, 0)>>)
    /\ result.ok
    /\ result.val.kind = "QuadraticBezierSegment"
    /\ result.val.point2 = [x |-> R(1), y |-> R(2)]
    /\ result.val.point3 = [x |-> R(3), y |-> R(0)]

IsCurveDataJson(v) ==
    /\ IsArr(v)
    /\ Len(v.arr) >= 1
    /\ IsPointJson(v.arr[1])
    /\ \A i \in 2..Len(v.arr) : IsSegmentJson(v.arr[i])

\* C15: a JSON value decodes as CurveData iff it is a non-empty array whose
\* element 0 is a Point and whose later elements are Segments; start is
\* element 0 and segments are elements 1..n-1 in order; an empty array or a
\* value that is no array fails with bad_shape.
CurveDataDecoding ==
    pc = "curve_data_done" =>
        /\ result.ok <=> IsCurveDataJson(input)
        /\ result.ok =>
              /\ result.val.start = PointOf(input.arr[1])
              /\ result.val.segments
                   = [i \in 1..(Len(input.arr) - 1) |-> SegmentOf(input.arr[i + 1])]
        /\ ~result.ok => result.err = "bad_shape"
        /\ (~IsArr(input) \/ input = JArr(<<>>)) => ~result.ok

CurveDataDecodingWitness ==
    /\ pc = "curve_data_done"
    /\ input = JArr(<<P(1, 2), SegC, SegL>>)
    /\ result.ok
    /\ result.val.start = [x |-> R(1), y |-> R(2)]
    /\ Len(result.val.segments) = 2
    /\ result.val.segments[1].kind = "CubicBezierSegment"
    /\ result.val.segments[2].kind = "LineSegment"

\* a one-element array yields zero segments
CurveDataNoSegmentsWitness ==
    /\ pc = "curve_data_done"
    /\ input = JArr(<<P(0, 0)>>)
    /\ result.ok
    /\ result.val.segments = <<>>

\* the calls of a Region block after its path construction
TailCalls(b) ==
    SubSeq(BlockCalls(b), Len(ContoursOps(b.shape.data.curves)) + 1,
           b.last - b.first + 1)

TailOps(b) == [i \in 1..Len(TailCalls(b)) |-> TailCalls(b)[i].op]

NoArgs(op) == [op |-> op, args |-> <<>>]

\* C16: after the path construction of a Region, with a brush and no pen the
\* calls are the brush's paint source, fill-preserve and discard, with no
\* stroke; with a pen and no brush they are the pen's paint source, stroke
\* width, cap and join and stroke, with no fill and no discard; with a brush
\* the fill precedes any stroke, and every fill is the preserving one.
RegionPaintTail ==
    Rendering =>
        \A k \in 1..Len(blocks) :
            LET b == blocks[k]
                r == b.shape
                ops == BlockOps(b)
            IN  RegionBlock(b) =>
                  /\ SubSeq(ops, 1, Len(ContoursOps(r.data.curves)))
                       = ContoursOps(r.data.curves)
                  /\ (HasValue(r.brush) /\ ~HasValue(r.pen)) =>
                        /\ TailCalls(b)
                             = SourceScaled(At(result.val.brushes, Value(r.brush)).pattern)
                               \o <<NoArgs("cairo_fill_preserve"), NoArgs("cairo_new_path")>>
                        /\ Count(ops, "cairo_stroke") = 0
                  /\ (HasValue(r.pen) /\ ~HasValue(r.brush)) =>
                        /\ TailOps(b) = StrokeOps(At(result.val.pens, Value(r.pen)))
                        /\ SelectSeq(TailCalls(b), IsSourceOrWidth)
                             = PenScaled(At(result.val.pens, Value(r.pen)))
                        /\ Count(ops, "cairo_fill_preserve") = 0
                        /\ Count(ops, "cairo_new_path") = 0
                  /\ HasValue(r.brush) =>
                        /\ Count(ops, "cairo_fill_preserve") = 1
                        /\ \A i, j \in 1..Len(ops) :
                              (ops[i] = "cairo_fill_preserve" /\ ops[j] = "cairo_stroke")
                                  => i < j
                  /\ Count(ops, "cairo_fill") = 0

\* a Region with a brush and no pen, and a second one with a pen and no brush
\* cannot be in one generated document; this is the first
RegionPaintTailWitness ==
    /\ pc = "done"
    /\ \E k \in 1..Len(blocks) :
          /\ RegionBlock(blocks[k])
          /\ HasValue(blocks[k].shape.brush)
          /\ ~HasValue(blocks[k].shape.pen)
          /\ Len(blocks[k].shape.data.curves) = 2
          /\ cr.calls[blocks[k].last].op = "cairo_new_path"
          /\ cr.calls[blocks[k].last - 1].op = "cairo_fill_preserve"
          /\ cr.calls[blocks[k].last - 2].op = "cairo_set_source"

RegionPenOnlyWitness ==
    /\ pc = "done"
    /\ \E k \in 1..Len(blocks) :
          /\ RegionBlock(blocks[k])
          /\ HasValue(blocks[k].shape.pen)
          /\ ~HasValue(blocks[k].shape.brush)
          /\ cr.calls[blocks[k].last].op = "cairo_stroke"
          /\ cr.calls[blocks[k].last - 4].op = "cairo_set_source_rgba"

IsPathAppend(call) ==
    call.op \in {"cairo_move_to", "cairo_line_to", "cairo_curve_to", "cairo_close_path"}

\* the element a path-construction call appends to the current path
PathElement(call) ==
    <<CASE call.op = "cairo_move_to" -> "M" [] call.op = "cairo_line_to" -> "L"
        [] call.op = "cairo_curve_to" -> "C" [] call.op = "cairo_close_path" -> "Z">>
    \o call.args

\* the path built by the calls of block b that precede call number n
OwnPath(b, n) ==
    LET own == SelectSeq(SubSeq(cr.calls, b.first, n - 1), IsPathAppend)
    IN  [i \in 1..Len(own) |-> PathElement(own[i])]

IsPaint(e) == cr.calls[e.call].op \in {"cairo_fill_preserve", "cairo_stroke"}

\* C17: with stroke and discard clearing the current path and fill-preserve
\* keeping it, the current path is empty whenever a Curve or Region starts
\* building its path and when render returns, and every fill and stroke acts
\* on exactly the path its own shape built, whatever path the caller left on
\* the surface.
PathEmptyAtLeafStart ==
    Rendering =>
        /\ \A k \in 1..Len(blocks) : blocks[k].path = <<>>
        /\ pc = "done" => cr.path = <<>>
        /\ \A n \in 1..Len(cr.seen) :
              IsPaint(cr.seen[n]) =>
                  \E k \in 1..Len(blocks) :
                      /\ blocks[k].first <= cr.seen[n].call
                      /\ cr.seen[n].call <= blocks[k].last
                      /\ cr.seen[n].path = OwnPath(blocks[k], cr.seen[n].call)

\* the caller left a path, render discarded it, and two leaves were painted
PathEmptyAtLeafStartWitness ==
    /\ pc = "done"
    /\ Len(cr.seen) >= 3
    /\ cr.seen[1].call = 3
    /\ cr.seen[1].path # <<>>
    /\ Len(blocks) >= 2
    /\ blocks[1].shape.kind = "Region"
    /\ HasValue(blocks[1].shape.brush)
    /\ blocks[2].path = <<>>
    /\ IsPaint(cr.seen[Len(cr.seen)])
    /\ cr.seen[Len(cr.seen)].path # <<>>

\* the kind of the first violation of a document described by d, in the
\* order of the claim; "none" without a violation
FirstViolation(d) ==
    IF d.width = "missing" \/ d.pens = "missing" \/ d.extra THEN "bad_image"
    ELSE IF d.width = "bad" \/ d.height = "bad" \/ d.upi = "bad" THEN "bad_image"
    ELSE IF d.pens = "not-array" THEN "bad_image"
    ELSE IF d.pens = "bad-element" THEN "bad_pen"
    ELSE IF d.brushes = "not-array" THEN "bad_image"
    ELSE IF d.brushes = "bad-element" THEN "bad_brush"
    ELSE IF d.shapes = "not-array" THEN "bad_image"
    ELSE IF d.shapes = "bad-element" THEN "bad_shape"
    ELSE IF d.shapes = "dangling" THEN "bad_shape"
    ELSE "none"

Violations(d) ==
    Cardinality({m \in {"width", "height", "upi", "pens", "brushes", "shapes"} : d[m] # "ok"})
    + (IF d.extra THEN 1 ELSE 0)

\* C18: parse returns the kind of the first violation in this order: the
\* top-level value not an object, a required member missing or a disallowed
\* member present (bad_image); then width, height, unit-per-inch, pens,
\* brushes, shapes in this order, where a bad number or a value that is no
\* array gives bad_image and a bad element bad_pen, bad_brush or bad_shape;
\* then the dangling-index check (bad_shape).
FailurePriority ==
    /\ (Parsed /\ desc.kind = "priority") =>
          IF FirstViolation(desc) = "none" THEN result.ok
          ELSE Failed(FirstViolation(desc))
    /\ (Parsed /\ desc.kind = "malformed" /\ desc.where = "top") => Failed("bad_image")

\* a malformed pen and a malformed shape give bad_pen
FailurePriorityWitness ==
    /\ pc = "failed"
    /\ desc.kind = "priority"
    /\ Violations(desc) = 2
    /\ desc.pens = "bad-element"
    /\ desc.shapes = "bad-element"
    /\ result.err = "bad_pen"

\* a missing width and a malformed pen give bad_image
MissingWidthWitness ==
    /\ pc = "failed"
    /\ desc.kind = "priority"
    /\ Violations(desc) = 2
    /\ desc.width = "missing"
    /\ desc.pens = "bad-element"
    /\ result.err = "bad_image"

=============================================================================
